---- MODULE Spec2Model ----
(***************************************************************************)
(* Verification model of the documentation store (DocumentStore, the       *)
(* relational tables libraries / versions / pages / documents and the      *)
(* statements that write them) and of the phase-2 chunk optimiser          *)
(* (GreedySplitter).                                                       *)
(*                                                                         *)
(* The store is modelled at statement granularity: every prepared          *)
(* statement a method runs is one step, a db.transaction(...) is one step  *)
(* (it commits whole or not at all), and any statement may throw, which    *)
(* ends the method in its catch block with the rows written so far left in *)
(* place.  Calls are made one after another, as better-sqlite3 executes    *)
(* statements synchronously on the single connection the store holds.      *)
(* The tables carry no constraint checking of their own beyond what the    *)
(* SQL text states (ON CONFLICT clauses): referential integrity is what    *)
(* the order of the statements establishes.                                *)
(***************************************************************************)
EXTENDS Integers, Sequences, FiniteSets, TLC

VARIABLES
    libraries,           \* rows of table libraries:  [id, name]
    versions,            \* rows of table versions:   [id, library_id, name, status, progress_pages, scraper_options]
    pages,               \* rows of table pages:      [id, version_id, url, title, etag, last_modified, content_type, depth]
    documents,           \* rows of table documents:  [id, page_id, content, metadata, sort_order]
    pc,                  \* position inside the running store method ("idle" between calls)
    call,                \* the running (or just finished) call and its arguments
    pre,                 \* the tables as they were when the call started
    ret,                 \* what the call has returned / accumulated so far
    repeat,              \* TRUE while the call repeats the previous, successful addDocuments call
    splitter,            \* GreedySplitter constructor arguments [baseSplitter, min, preferred, max]
    spc,                 \* position inside GreedySplitter.splitText
    consumed,            \* the phase-1 chunks the for-loop has iterated over so far
    currentChunk,        \* splitText local currentChunk (NoChunk = null)
    concatenatedChunks,  \* splitText local concatenatedChunks
    cuts,                \* for every pushed chunk, the rule that ended it
    query,               \* escapeFtsQuery argument, a sequence of characters
    charIndex,           \* escapeFtsQuery loop variable i (0-based; Len(query) after the loop)
    tokens,              \* escapeFtsQuery local tokens
    currentToken,        \* escapeFtsQuery local currentToken
    inQuote,             \* escapeFtsQuery local inQuote
    ftsQuery,            \* what escapeFtsQuery returned (NULL before it returns)
    embeddingConfig,     \* this.embeddingConfig (NoEmbeddingConfig: no embedding model specified)
    credentialsAvailable, \* areCredentialsAvailable(config.provider), from the environment
    initialized,         \* "new" before initialize(), then "ok" or "failed"
    modelDimension,      \* this.modelDimension (0 until set)
    isVectorSearchEnabled, \* this.isVectorSearchEnabled
    searchWeightVec,     \* this.searchWeightVec
    searchWeightFts,     \* this.searchWeightFts
    embeddingsCalled,    \* TRUE once embedDocuments / embedQuery of the provider was called
    rawEmbeddings,       \* addDocuments local rawEmbeddings
    paddedEmbeddings,    \* addDocuments local paddedEmbeddings
    embeddingsWritten,   \* what statements.insertEmbedding has written: [rowid, embedding]
    fpc,                 \* position inside findByContent
    matches,             \* what the indexes hold for the query: [id, types, vec_distance, bm25]
    limit,               \* findByContent argument limit
    queryVector,         \* findByContent local embedding (<<>> when not computed)
    rawResults,          \* findByContent local rawResults
    rankedResults,       \* findByContent local rankedResults
    results,             \* what findByContent returned
    mpc,                 \* position inside HtmlPlaywrightMiddleware.process ("off": not called)
    source,              \* what process is called with: [isHtml, shouldRunPlaywright, credentials, frames]
    browserContext,      \* process local browserContext: "null", "open", "closed" or "closeFailed"
    page,                \* process local page: "null", "open" or "closed"
    framePages,          \* the pages fetchFrameContent has created, in order: "open" or "closed"
    framePc,             \* position inside fetchFrameContent ("none" outside it)
    frameUrls,           \* waitForFramesetsToLoad: the frame URLs still to fetch (a count)
    renderedHtml,        \* process local renderedHtml is not null
    contextErrors,       \* number of errors pushed to context.errors
    nextCalls,           \* how many times process has invoked next
    contextContent,      \* context.content: the HTML process was given ("initial") or the rendered HTML
    browser,             \* this.browser: 0 (null) or the number of a launched browser
    launched,            \* the browsers launched so far, each "connected", "disconnected" or "closed"
    eventsPending,       \* browsers whose "disconnected" event is emitted and not yet handled
    ensurePc,            \* for every concurrent process call, its position inside ensureBrowser
    closePc,             \* closeBrowser: [pc, target, threw]
    closeCalls,          \* the browsers close() was called on
    resourceCache,       \* HtmlPlaywrightMiddleware.resourceCache: URL -> NoEntry or [status, size, writer, auth]
    served,              \* the last cache hit: <<>> or <<[url, reader, writer]>>
    mergeArgs,           \* mergePlaywrightHeaders arguments
    mergedHeaders,       \* what mergePlaywrightHeaders returned (NotMerged before it returns)
    embeddingBatchSize,  \* this.embeddingBatchSize (config.embeddings.batchSize)
    embeddingBatchChars, \* this.embeddingBatchChars (config.embeddings.batchChars)
    texts,               \* addDocuments local texts: for every chunk [chunk, size]
    textIndex,           \* how many texts the batching loop has iterated over
    currentBatch,        \* addDocuments local currentBatch
    currentBatchSize,    \* addDocuments local currentBatchSize
    bpc,                 \* position inside the batching part of addDocuments ("off": not running)
    formed,              \* the batches addDocuments has passed to embedDocumentsWithRetry
    sent,                \* the batches passed to the provider's embedDocuments
    inFlight,            \* the embedDocumentsWithRetry calls that have not returned
    returned,            \* what returned calls gave and their caller has not taken: [first, last, vectors]
    embedded,            \* addDocuments local rawEmbeddings, each vector as the text it was computed from
    childArgs,           \* findChildChunks: the paths of the page's chunks by id, the reference id, the limit
    childChunks,         \* the ids findChildChunks returned, in order (NotFound before it returns)
    routeRequest,        \* the intercepted request, <<>> before the handler runs
    routeCache,          \* whether resourceCache holds the request URL
    routePc,             \* the call on the route the handler makes next
    routeCalls,          \* calls made on the route, with how each settled
    routeResult          \* settlement of the promise the handler returned

storeVars == <<libraries, versions, pages, documents, pc, call, pre, ret, repeat>>
splitVars == <<splitter, spc, consumed, currentChunk, concatenatedChunks, cuts>>
ftsVars == <<query, charIndex, tokens, currentToken, inQuote, ftsQuery>>
configVars == <<embeddingConfig, credentialsAvailable, initialized, modelDimension,
                isVectorSearchEnabled, searchWeightVec, searchWeightFts>>
vecVars == <<embeddingsCalled, rawEmbeddings, paddedEmbeddings, embeddingsWritten>>
searchVars == <<fpc, matches, limit, queryVector, rawResults, rankedResults, results>>
playVars == <<mpc, source, browserContext, page, framePages, framePc, frameUrls,
              renderedHtml, contextErrors, nextCalls, contextContent>>
vars == <<libraries, versions, pages, documents, pc, call, pre, ret, repeat,
          splitter, spc, consumed, currentChunk, concatenatedChunks, cuts,
          query, charIndex, tokens, currentToken, inQuote, ftsQuery,
          embeddingConfig, credentialsAvailable, initialized, modelDimension,
          isVectorSearchEnabled, searchWeightVec, searchWeightFts,
          embeddingsCalled, rawEmbeddings, paddedEmbeddings, embeddingsWritten,
          fpc, matches, limit, queryVector, rawResults, rankedResults, results,
          mpc, source, browserContext, page, framePages, framePc, frameUrls,
          renderedHtml, contextErrors, nextCalls, contextContent,
          browser, launched, eventsPending, ensurePc, closePc, closeCalls,
          resourceCache, served, mergeArgs, mergedHeaders,
          embeddingBatchSize, embeddingBatchChars, texts, textIndex, currentBatch,
          currentBatchSize, bpc, formed, sent, inFlight, returned, embedded,
          childArgs, childChunks,
          routeRequest, routeCache, routePc, routeCalls, routeResult>>

(* what the steps of one component leave alone: the state of the others *)
browserVars == <<browser, launched, eventsPending, ensurePc, closePc, closeCalls>>
cacheVars == <<resourceCache, served>>
headerVars == <<mergeArgs, mergedHeaders>>
batchVars == <<embeddingBatchSize, embeddingBatchChars, texts, textIndex, currentBatch,
               currentBatchSize, bpc, formed, sent, inFlight, returned, embedded>>
childVars == <<childArgs, childChunks>>
routeVars == <<routeRequest, routeCache, routePc, routeCalls, routeResult>>
restVars == <<browserVars, cacheVars, headerVars, batchVars, childVars, routeVars>>
nonStoreVars == <<splitVars, ftsVars, configVars, searchVars, playVars, restVars>>
nonSplitVars == <<storeVars, ftsVars, configVars, vecVars, searchVars, playVars, restVars>>
nonFtsVars == <<storeVars, splitVars, configVars, vecVars, searchVars, playVars, restVars>>
nonSearchVars == <<storeVars, splitVars, ftsVars, configVars, playVars, restVars>>
nonPlayVars == <<storeVars, splitVars, ftsVars, configVars, vecVars, searchVars, restVars>>
firstVars == <<storeVars, splitVars, ftsVars, configVars, vecVars, searchVars, playVars>>
nonBrowserVars == <<firstVars, cacheVars, headerVars, batchVars, childVars, routeVars>>
nonCacheVars == <<firstVars, browserVars, headerVars, batchVars, childVars, routeVars>>
nonHeaderVars == <<firstVars, browserVars, cacheVars, batchVars, childVars, routeVars>>
nonBatchVars == <<firstVars, browserVars, cacheVars, headerVars, childVars, routeVars>>
nonChildVars == <<firstVars, browserVars, cacheVars, headerVars, batchVars, routeVars>>
nonRouteVars == <<firstVars, browserVars, cacheVars, headerVars, batchVars, childVars>>

----------------------------------------------------------------------------
(* Bounds of the model *)

MaxLibraryId == 2
MaxVersionId == 2
MaxPageId == 2
MaxDocumentId == 2
MaxPageChunks == 2

NULL == "NULL"

(* Strings are sequences of one-character strings. *)
LibraryArgs == {<<"A">>, <<"b">>}
VersionArgs == {<<>>, <<"V">>}
(* resolveVersionId is also called with the lower-case spellings *)
ResolveLibraryArgs == LibraryArgs \cup {<<"a">>}
ResolveVersionArgs == VersionArgs \cup {<<"v">>}
UrlArgs == {"u1", "u2"}
TitleArgs == {"T"}
DepthArgs == {0}
StatusArgs == {"completed"}

Max(S) == CHOOSE x \in S : \A y \in S : y <= x

SeqsUpTo(S, n) == UNION {[1..k -> S] : k \in 0..n}

(* String.prototype.toLowerCase over the alphabet of the model *)
LowerChar(c) ==
    CASE c = "A" -> "a"
      [] c = "B" -> "b"
      [] c = "V" -> "v"
      [] OTHER -> c

toLowerCase(s) == [i \in DOMAIN s |-> LowerChar(s[i])]

(* ./types denormalizeVersionName: the unversioned collection is stored as '' *)
denormalizeVersionName(name) == IF name = <<>> THEN <<>> ELSE name

(* Chunks handed to the store by a scrape result *)
ChunkX == [types |-> <<"content">>, content |-> <<"x">>,
           section |-> [level |-> 1, path |-> <<"A">>]]
ChunkY == [types |-> <<"structural">>, content |-> <<"y">>,
           section |-> [level |-> 2, path |-> <<"A", "B">>]]
StoreChunks == {ChunkX, ChunkY}
ChunkLists == SeqsUpTo(StoreChunks, MaxPageChunks)

----------------------------------------------------------------------------
(* Prepared statements, as functions of the tables *)

(* rowid of a freshly inserted row *)
lastInsertRowid(table) == IF table = {} THEN 1 ELSE Max({r.id : r \in table}) + 1

GetLibraryIdByName(libs, name) ==
    IF \E l \in libs : l.name = name
      THEN (CHOOSE l \in libs : l.name = name).id
      ELSE 0

InsertLibrary(libs, name) ==
    IF \E l \in libs : l.name = name
      THEN libs
      ELSE libs \cup {[id |-> lastInsertRowid(libs), name |-> name]}

ResolveVersionIdStmt(vers, libraryId, name) ==
    IF \E v \in vers : v.library_id = libraryId /\ v.name = name
      THEN (CHOOSE v \in vers : v.library_id = libraryId /\ v.name = name).id
      ELSE 0

(* INSERT OR REPLACE instead of ON CONFLICT DO NOTHING *)
InsertVersion_Replace(vers, libraryId, name) ==
    {v \in vers : ~(v.library_id = libraryId /\ v.name = name)}
      \cup {[id |-> lastInsertRowid(vers), library_id |-> libraryId,
              name |-> name, status |-> "not_indexed", progress_pages |-> 0, scraper_options |-> NULL]}

InsertVersion(vers, libraryId, name) ==
    IF \E v \in vers : v.library_id = libraryId /\ v.name = name
      THEN vers
      ELSE vers \cup {[id |-> lastInsertRowid(vers), library_id |-> libraryId,
                       name |-> name, status |-> "not_indexed",
                       progress_pages |-> 0, scraper_options |-> NULL]}

UpdateVersionStatusStmt(vers, status, versionId) ==
    {IF v.id = versionId THEN [v EXCEPT !.status = status] ELSE v : v \in vers}

UpdateVersionProgressStmt(vers, n, versionId) ==
    {IF v.id = versionId THEN [v EXCEPT !.progress_pages = n] ELSE v : v \in vers}

UpdateVersionScraperOptionsStmt(vers, options, versionId) ==
    {IF v.id = versionId THEN [v EXCEPT !.scraper_options = options] ELSE v : v \in vers}

GetPageId(pgs, versionId, url) ==
    IF \E p \in pgs : p.version_id = versionId /\ p.url = url
      THEN (CHOOSE p \in pgs : p.version_id = versionId /\ p.url = url).id
      ELSE 0

(* a plain INSERT, without the ON CONFLICT(version_id, url) DO UPDATE clause *)
InsertPage_NoConflictClause(pgs, versionId, url, title, etag, lastModified, contentType, depth) ==
    pgs \cup {[id |-> lastInsertRowid(pgs), version_id |-> versionId,
                url |-> url, title |-> title, etag |-> etag,
                last_modified |-> lastModified,
                content_type |-> contentType, depth |-> depth]}

InsertPage(pgs, versionId, url, title, etag, lastModified, contentType, depth) ==
    IF \E p \in pgs : p.version_id = versionId /\ p.url = url
      THEN {IF p.version_id = versionId /\ p.url = url
              THEN [p EXCEPT !.title = title, !.content_type = contentType,
                             !.etag = etag, !.last_modified = lastModified,
                             !.depth = depth]
              ELSE p : p \in pgs}
      ELSE pgs \cup {[id |-> lastInsertRowid(pgs), version_id |-> versionId,
                      url |-> url, title |-> title, etag |-> etag,
                      last_modified |-> lastModified,
                      content_type |-> contentType, depth |-> depth]}

InsertDocument(docs, pageId, content, metadata, sortOrder) ==
    docs \cup {[id |-> lastInsertRowid(docs), page_id |-> pageId,
                content |-> content, metadata |-> metadata,
                sort_order |-> sortOrder]}

(* DELETE FROM documents WHERE id = ? : the wrong column *)
DeleteDocumentsByPageId_ById(docs, pageId) == {d \in docs : d.id # pageId}

DeleteDocumentsByPageId(docs, pageId) == {d \in docs : d.page_id # pageId}

(* DELETE FROM pages WHERE version_id = ? : the wrong column *)
DeletePageStmt_ByVersionId(pgs, pageId) == {p \in pgs : p.version_id # pageId}

(* DELETE FROM pages WHERE id = ? *)
DeletePageStmt(pgs, pageId) == {p \in pgs : p.id # pageId}

(* the sub-select shared by deleteDocuments / deletePages / getVersionId *)
VersionIdsOf(vers, libs, libName, verName) ==
    {v.id : v \in {w \in vers :
        \E l \in libs : l.id = w.library_id /\ l.name = libName /\ w.name = verName}}

PageIdsOf(pgs, vers, libs, libName, verName) ==
    {p.id : p \in {q \in pgs : q.version_id \in VersionIdsOf(vers, libs, libName, verName)}}

(* the sub-select without the version-name condition: the whole library *)
DeleteDocuments_WholeLibrary(docs, pgs, vers, libs, libName, verName) ==
    {d \in docs : \A p \in pgs : \A v \in vers : \A l \in libs :
        ~(p.id = d.page_id /\ v.id = p.version_id /\ l.id = v.library_id
          /\ l.name = libName)}

DeleteDocuments(docs, pgs, vers, libs, libName, verName) ==
    {d \in docs : d.page_id \notin PageIdsOf(pgs, vers, libs, libName, verName)}

DeletePagesStmt(pgs, vers, libs, libName, verName) ==
    {p \in pgs : p.version_id \notin VersionIdsOf(vers, libs, libName, verName)}

GetVersionId(vers, libs, libName, verName) ==
    IF \E v \in vers : v.id \in VersionIdsOf(vers, libs, libName, verName)
      THEN LET v == CHOOSE w \in vers : w.id \in VersionIdsOf(vers, libs, libName, verName)
           IN [id |-> v.id, library_id |-> v.library_id]
      ELSE [id |-> 0, library_id |-> 0]

DeleteVersionById(vers, versionId) == {v \in vers : v.id # versionId}

DeleteLibraryById(libs, libraryId) == {l \in libs : l.id # libraryId}

CountVersionsByLibraryId(vers, libraryId) ==
    Cardinality({v \in vers : v.library_id = libraryId})

CheckExists(docs, pgs, vers, libs, libName, verName) ==
    \E d \in docs : d.page_id \in PageIdsOf(pgs, vers, libs, libName, verName)

----------------------------------------------------------------------------
(* Queries *)

RECURSIVE OrderBySortOrder(_)
OrderBySortOrder(rows) ==
    IF rows = {} THEN <<>>
    ELSE LET first == CHOOSE r \in rows : \A q \in rows :
                          \/ r.sort_order < q.sort_order
                          \/ (r.sort_order = q.sort_order /\ r.id <= q.id)
         IN <<first>> \o OrderBySortOrder(rows \ {first})

ChunkRowsOf(docs, pgs, vers, libs, libName, verName, url) ==
    {d \in docs : \E p \in pgs :
        /\ p.id = d.page_id
        /\ p.url = url
        /\ p.version_id \in VersionIdsOf(vers, libs, libName, verName)}

findChunksByUrl(library, version, url) ==
    OrderBySortOrder(ChunkRowsOf(documents, pages, versions, libraries,
                                 toLowerCase(library), toLowerCase(version), url))

checkDocumentExists(library, version) ==
    CheckExists(documents, pages, versions, libraries,
                toLowerCase(library), toLowerCase(version))

----------------------------------------------------------------------------
(* Calls *)

Snapshot == [libraries |-> libraries, versions |-> versions,
             pages |-> pages, documents |-> documents, embeddings |-> embeddingsWritten]

NoSnapshot == [libraries |-> {}, versions |-> {}, pages |-> {}, documents |-> {}, embeddings |-> {}]

NoCall == [kind |-> "none", library |-> <<>>, version |-> <<>>, url |-> NULL,
           title |-> NULL, depth |-> 0, chunks |-> <<>>, flag |-> FALSE, id |-> 0,
           status |-> NULL]

NoRet == [outcome |-> "none", id |-> 0, documentsDeleted |-> 0,
          versionDeleted |-> FALSE, libraryDeleted |-> FALSE]

(* the normalised names a call works with *)
normalizedLibrary == toLowerCase(call.library)
normalizedVersion ==
    IF call.kind \in {"addDocuments", "resolveVersionId"}
      THEN denormalizeVersionName(toLowerCase(call.version))
      ELSE toLowerCase(call.version)

(* Room for the rows a call may insert: rowids stay within the bounds. *)
RoomFor(library, version, url, n) ==
    LET lib == toLowerCase(library)
        ver == denormalizeVersionName(toLowerCase(version))
        libId == GetLibraryIdByName(libraries, lib)
        verId == IF libId = 0 THEN 0 ELSE ResolveVersionIdStmt(versions, libId, ver)
        pageId == IF verId = 0 THEN 0 ELSE GetPageId(pages, verId, url)
        kept == DeleteDocumentsByPageId(documents, pageId)
    IN /\ libId = 0 => lastInsertRowid(libraries) <= MaxLibraryId
       /\ verId = 0 => lastInsertRowid(versions) <= MaxVersionId
       /\ (n > 0 /\ pageId = 0) => lastInsertRowid(pages) <= MaxPageId
       /\ n > 0 => lastInsertRowid(kept) + n - 1 <= MaxDocumentId

Start(c, first) ==
    /\ call' = c
    /\ pre' = Snapshot
    /\ ret' = NoRet
    /\ pc' = first
    /\ UNCHANGED <<libraries, versions, pages, documents>>

(* resolveVersionId(library, version), called directly *)
CallResolveVersionId ==
    /\ pc = "idle"
    /\ \E l \in ResolveLibraryArgs, v \in ResolveVersionArgs :
         /\ RoomFor(l, v, NULL, 0)
         /\ Start([NoCall EXCEPT !.kind = "resolveVersionId", !.library = l,
                                 !.version = v], "insertLibrary")
    /\ repeat' = FALSE
    /\ UNCHANGED nonStoreVars
    /\ UNCHANGED vecVars

(* addDocuments(library, version, depth, result): up to the first statement *)
EnterAddDocuments(c) ==
    IF Len(c.chunks) = 0
      THEN /\ call' = c
           /\ pre' = Snapshot
           /\ ret' = [NoRet EXCEPT !.outcome = "ok"]
           /\ pc' = "done"
           /\ UNCHANGED <<libraries, versions, pages, documents>>
      ELSE Start(c, IF isVectorSearchEnabled THEN "embed" ELSE "insertLibrary")

CallAddDocuments(urls, lists) ==
    /\ pc = "idle"
    /\ fpc = "idle"
    /\ initialized = "ok"
    /\ \E l \in LibraryArgs, v \in VersionArgs, u \in urls, t \in TitleArgs,
          d \in DepthArgs, cs \in lists :
         /\ RoomFor(l, v, u, Len(cs))
         /\ EnterAddDocuments([NoCall EXCEPT !.kind = "addDocuments", !.library = l,
                                  !.version = v, !.url = u, !.title = t,
                                  !.depth = d, !.chunks = cs])
    /\ repeat' = FALSE
    /\ UNCHANGED nonStoreVars
    /\ rawEmbeddings' = <<>>
    /\ paddedEmbeddings' = <<>>
    /\ UNCHANGED <<embeddingsCalled, embeddingsWritten>>

(* the same addDocuments call made again right after it returned *)
RepeatAddDocuments ==
    /\ pc = "done"
    /\ call.kind = "addDocuments"
    /\ ret.outcome = "ok"
    /\ ~repeat
    /\ RoomFor(call.library, call.version, call.url, Len(call.chunks))
    /\ EnterAddDocuments(call)
    /\ repeat' = TRUE
    /\ UNCHANGED nonStoreVars
    /\ rawEmbeddings' = <<>>
    /\ paddedEmbeddings' = <<>>
    /\ UNCHANGED <<embeddingsCalled, embeddingsWritten>>

(* resolveVersionId: insertLibrary.run, getLibraryIdByName.get *)
ResolveInsertLibrary ==
    /\ pc = "insertLibrary"
    /\ libraries' = InsertLibrary(libraries, normalizedLibrary)
    /\ pc' = "insertVersion"
    /\ UNCHANGED <<versions, pages, documents, call, pre, ret, repeat>>
    /\ UNCHANGED nonStoreVars
    /\ UNCHANGED vecVars

(* resolveVersionId: insertVersion.run, resolveVersionId.get, return *)
ResolveInsertVersion ==
    /\ pc = "insertVersion"
    /\ LET libraryId == GetLibraryIdByName(libraries, normalizedLibrary)
           vers == InsertVersion(versions, libraryId, normalizedVersion)
           versionId == ResolveVersionIdStmt(vers, libraryId, normalizedVersion)
       IN /\ versions' = vers
          /\ ret' = [ret EXCEPT !.id = versionId,
                                !.outcome = IF call.kind = "resolveVersionId"
                                              THEN "ok" ELSE @]
    /\ pc' = IF call.kind = "resolveVersionId" THEN "done" ELSE "deleteExisting"
    /\ UNCHANGED <<libraries, pages, documents, call, pre, repeat>>
    /\ UNCHANGED nonStoreVars
    /\ UNCHANGED vecVars

(* addDocuments: getPageId.get and deleteDocumentsByPageId.run, before the transaction *)
AddDeleteExisting ==
    /\ pc = "deleteExisting"
    /\ LET existingPage == GetPageId(pages, ret.id, call.url)
       IN documents' = IF existingPage # 0
                         THEN DeleteDocumentsByPageId(documents, existingPage)
                         ELSE documents
    /\ pc' = "transaction"
    /\ UNCHANGED <<libraries, versions, pages, call, pre, ret, repeat>>
    /\ UNCHANGED nonStoreVars
    /\ UNCHANGED vecVars

(* the loop counting sort_order from 1 *)
RECURSIVE InsertChunks_FromOne(_, _, _, _)
InsertChunks_FromOne(docs, pageId, chunks, i) ==
    IF i > Len(chunks) THEN docs
    ELSE InsertChunks_FromOne(
           InsertDocument(docs, pageId, chunks[i].content,
                          [types |-> chunks[i].types,
                           level |-> chunks[i].section.level,
                           path |-> chunks[i].section.path],
                          i),
           pageId, chunks, i + 1)

(* the loop walking the chunks back to front *)
RECURSIVE InsertChunks_Reversed(_, _, _, _)
InsertChunks_Reversed(docs, pageId, chunks, i) ==
    IF i > Len(chunks) THEN docs
    ELSE InsertChunks_Reversed(
           InsertDocument(docs, pageId, chunks[Len(chunks) + 1 - i].content,
                          [types |-> chunks[Len(chunks) + 1 - i].types,
                           level |-> chunks[Len(chunks) + 1 - i].section.level,
                           path |-> chunks[Len(chunks) + 1 - i].section.path],
                          i - 1),
           pageId, chunks, i + 1)

(* the insert loop of the transaction: chunk i is stored with sort_order i-1 *)
RECURSIVE InsertChunks(_, _, _, _)
InsertChunks(docs, pageId, chunks, i) ==
    IF i > Len(chunks) THEN docs
    ELSE InsertChunks(
           InsertDocument(docs, pageId, chunks[i].content,
                          [types |-> chunks[i].types,
                           level |-> chunks[i].section.level,
                           path |-> chunks[i].section.path],
                          i - 1),
           pageId, chunks, i + 1)

(* insertEmbedding.run(JSON.stringify(paddedEmbeddings[docIndex]), rowId) for the *)
(* rows the loop has inserted for the page; docIndex is the row's sort_order     *)
InsertEmbeddings(docs, pageId, padded) ==
    {[rowid |-> d.id, embedding |-> padded[d.sort_order + 1]] :
        d \in {r \in docs : r.page_id = pageId /\ r.sort_order + 1 \in DOMAIN padded}}

(* addDocuments: db.transaction: insertPage, getPageId, insertDocument per chunk *)
AddTransaction ==
    /\ pc = "transaction"
    /\ LET versionId == ret.id
           pgs == InsertPage(pages, versionId, call.url, call.title, NULL, NULL,
                             NULL, call.depth)
           pageId == GetPageId(pgs, versionId, call.url)
       IN /\ pages' = pgs
          /\ documents' = InsertChunks(documents, pageId, call.chunks, 1)
          /\ embeddingsWritten' =
                 IF isVectorSearchEnabled /\ Len(paddedEmbeddings) > 0
                   THEN embeddingsWritten \cup
                            InsertEmbeddings(documents', pageId, paddedEmbeddings)
                   ELSE embeddingsWritten
    /\ ret' = [ret EXCEPT !.outcome = "ok"]
    /\ pc' = "done"
    /\ UNCHANGED <<libraries, versions, call, pre, repeat>>
    /\ UNCHANGED <<embeddingsCalled, rawEmbeddings, paddedEmbeddings>>
    /\ UNCHANGED nonStoreVars

(* deletePages(library, version) *)
CallDeletePages ==
    /\ pc = "idle"
    /\ \E l \in LibraryArgs, v \in VersionArgs :
         Start([NoCall EXCEPT !.kind = "deletePages", !.library = l, !.version = v],
               "deleteDocuments")
    /\ repeat' = FALSE
    /\ UNCHANGED nonStoreVars
    /\ UNCHANGED vecVars

(* deletePages: deleteDocuments.run; result.changes is the count returned *)
DeletePagesDocuments ==
    /\ pc = "deleteDocuments"
    /\ LET docs == DeleteDocuments(documents, pages, versions, libraries,
                                   normalizedLibrary, normalizedVersion)
       IN /\ documents' = docs
          /\ ret' = [ret EXCEPT !.documentsDeleted =
                                   Cardinality(documents) - Cardinality(docs)]
    /\ pc' = "deletePages"
    /\ UNCHANGED <<libraries, versions, pages, call, pre, repeat>>
    /\ UNCHANGED nonStoreVars
    /\ UNCHANGED vecVars

(* deletePages: deletePages.run, return (to removeVersion when called from it) *)
DeletePagesPages ==
    /\ pc = "deletePages"
    /\ pages' = DeletePagesStmt(pages, versions, libraries,
                                normalizedLibrary, normalizedVersion)
    /\ pc' = IF call.kind = "removeVersion" THEN "deletePagesAgain" ELSE "done"
    /\ ret' = [ret EXCEPT !.outcome = IF call.kind = "removeVersion" THEN @ ELSE "ok"]
    /\ UNCHANGED <<libraries, versions, documents, call, pre, repeat>>
    /\ UNCHANGED nonStoreVars
    /\ UNCHANGED vecVars

(* deletePage(pageId) *)
CallDeletePage ==
    /\ pc = "idle"
    /\ \E id \in 1..MaxPageId :
         Start([NoCall EXCEPT !.kind = "deletePage", !.id = id],
               "deleteDocumentsByPageId")
    /\ repeat' = FALSE
    /\ UNCHANGED nonStoreVars
    /\ UNCHANGED vecVars

(* deletePage: deleteDocumentsByPageId.run *)
DeletePageDocuments ==
    /\ pc = "deleteDocumentsByPageId"
    /\ documents' = DeleteDocumentsByPageId(documents, call.id)
    /\ pc' = "deletePage"
    /\ UNCHANGED <<libraries, versions, pages, call, pre, ret, repeat>>
    /\ UNCHANGED nonStoreVars
    /\ UNCHANGED vecVars

(* deletePage: deletePage.run, return *)
DeletePagePage ==
    /\ pc = "deletePage"
    /\ pages' = DeletePageStmt(pages, call.id)
    /\ ret' = [ret EXCEPT !.outcome = "ok"]
    /\ pc' = "done"
    /\ UNCHANGED <<libraries, versions, documents, call, pre, repeat>>
    /\ UNCHANGED nonStoreVars
    /\ UNCHANGED vecVars

(* removeVersion(library, version, removeLibraryIfEmpty) *)
CallRemoveVersion ==
    /\ pc = "idle"
    /\ \E l \in LibraryArgs, v \in VersionArgs, f \in BOOLEAN :
         Start([NoCall EXCEPT !.kind = "removeVersion", !.library = l,
                              !.version = v, !.flag = f], "getVersionId")
    /\ repeat' = FALSE
    /\ UNCHANGED nonStoreVars
    /\ UNCHANGED vecVars

(* the row removeVersion read with getVersionId at its start *)
versionResult == GetVersionId(pre.versions, pre.libraries,
                              normalizedLibrary, normalizedVersion)

(* removeVersion: getVersionId.get; an unknown version returns zero counts *)
RemoveGetVersionId ==
    /\ pc = "getVersionId"
    /\ IF versionResult.id = 0
         THEN /\ ret' = [ret EXCEPT !.outcome = "ok"]
              /\ pc' = "done"
         ELSE /\ ret' = ret
              /\ pc' = "deleteDocuments"
    /\ UNCHANGED <<libraries, versions, pages, documents, call, pre, repeat>>
    /\ UNCHANGED nonStoreVars
    /\ UNCHANGED vecVars

(* removeVersion: the second deletePages.run, after deletePages() returned *)
RemoveDeletePagesAgain ==
    /\ pc = "deletePagesAgain"
    /\ pages' = DeletePagesStmt(pages, versions, libraries,
                                normalizedLibrary, normalizedVersion)
    /\ pc' = "deleteVersion"
    /\ UNCHANGED <<libraries, versions, documents, call, pre, ret, repeat>>
    /\ UNCHANGED nonStoreVars
    /\ UNCHANGED vecVars

(* removeVersion: deleteVersionById.run *)
RemoveDeleteVersion ==
    /\ pc = "deleteVersion"
    /\ LET vers == DeleteVersionById(versions, versionResult.id)
       IN /\ versions' = vers
          /\ ret' = [ret EXCEPT !.versionDeleted = (vers # versions)]
    /\ pc' = "deleteLibrary"
    /\ UNCHANGED <<libraries, pages, documents, call, pre, repeat>>
    /\ UNCHANGED nonStoreVars
    /\ UNCHANGED vecVars

(* the check without removeLibraryIfEmpty *)
ShouldDeleteLibrary_IgnoreFlag(removeLibraryIfEmpty, versionDeleted, remainingVersions) ==
    versionDeleted /\ remainingVersions = 0

(* does removeVersion go on to delete the library row? *)
ShouldDeleteLibrary(removeLibraryIfEmpty, versionDeleted, remainingVersions) ==
    removeLibraryIfEmpty /\ versionDeleted /\ remainingVersions = 0

(* removeVersion: countVersionsByLibraryId.get, deleteLibraryById.run, return *)
RemoveDeleteLibrary ==
    /\ pc = "deleteLibrary"
    /\ LET libraryId == versionResult.library_id
           libs == IF ShouldDeleteLibrary(call.flag, ret.versionDeleted,
                         CountVersionsByLibraryId(versions, libraryId))
                     THEN DeleteLibraryById(libraries, libraryId)
                     ELSE libraries
       IN /\ libraries' = libs
          /\ ret' = [ret EXCEPT !.libraryDeleted = (libs # libraries),
                                !.outcome = "ok"]
    /\ pc' = "done"
    /\ UNCHANGED <<versions, pages, documents, call, pre, repeat>>
    /\ UNCHANGED nonStoreVars
    /\ UNCHANGED vecVars

(* updateVersionStatus(versionId, status): one UPDATE *)
UpdateVersionStatus ==
    /\ pc = "idle"
    /\ \E id \in 1..MaxVersionId, st \in StatusArgs :
         /\ versions' = UpdateVersionStatusStmt(versions, st, id)
         /\ call' = [NoCall EXCEPT !.kind = "updateVersionStatus", !.id = id,
                                   !.status = st]
    /\ pre' = Snapshot
    /\ ret' = [NoRet EXCEPT !.outcome = "ok"]
    /\ pc' = "done"
    /\ repeat' = FALSE
    /\ UNCHANGED <<libraries, pages, documents>>
    /\ UNCHANGED nonStoreVars
    /\ UNCHANGED vecVars

(* updateVersionProgress(versionId, pages, maxPages): one UPDATE *)
UpdateVersionProgress ==
    /\ pc = "idle"
    /\ \E id \in 1..MaxVersionId :
         /\ versions' = UpdateVersionProgressStmt(versions, 1, id)
         /\ call' = [NoCall EXCEPT !.kind = "updateVersionProgress", !.id = id]
    /\ pre' = Snapshot
    /\ ret' = [NoRet EXCEPT !.outcome = "ok"]
    /\ pc' = "done"
    /\ repeat' = FALSE
    /\ UNCHANGED <<libraries, pages, documents>>
    /\ UNCHANGED nonStoreVars
    /\ UNCHANGED vecVars

(* storeScraperOptions(versionId, options): one UPDATE *)
StoreScraperOptions ==
    /\ pc = "idle"
    /\ \E id \in 1..MaxVersionId :
         /\ versions' = UpdateVersionScraperOptionsStmt(versions, "options", id)
         /\ call' = [NoCall EXCEPT !.kind = "storeScraperOptions", !.id = id]
    /\ pre' = Snapshot
    /\ ret' = [NoRet EXCEPT !.outcome = "ok"]
    /\ pc' = "done"
    /\ repeat' = FALSE
    /\ UNCHANGED <<libraries, pages, documents>>
    /\ UNCHANGED nonStoreVars
    /\ UNCHANGED vecVars

(* The statement (or transaction) about to run throws: nothing of it is     *)
(* applied and the method leaves through its catch block.                   *)
Throw ==
    /\ pc \notin {"idle", "done"}
    /\ ret' = [ret EXCEPT !.outcome = "thrown"]
    /\ pc' = "done"
    /\ UNCHANGED <<libraries, versions, pages, documents, call, pre, repeat>>
    /\ UNCHANGED nonStoreVars
    /\ UNCHANGED vecVars

(* the caller takes the result; the store waits for the next call *)
Return ==
    /\ pc = "done"
    /\ pc' = "idle"
    /\ call' = NoCall
    /\ pre' = NoSnapshot
    /\ ret' = NoRet
    /\ repeat' = FALSE
    /\ UNCHANGED <<libraries, versions, pages, documents>>
    /\ UNCHANGED nonStoreVars
    /\ rawEmbeddings' = <<>>
    /\ paddedEmbeddings' = <<>>
    /\ UNCHANGED <<embeddingsCalled, embeddingsWritten>>

----------------------------------------------------------------------------
(* GreedySplitter *)

MaxChunks == 3
MaxBody == 5

(* constructor arguments minChunkSize, preferredChunkSize, maxChunkSize *)
SplitterArgs == {[baseSplitter |-> "short", min |-> 2, preferred |-> 3, max |-> 4],
                 [baseSplitter |-> "short", min |-> 3, preferred |-> 3, max |-> 4]}

(* a body of n characters, the last one a newline or not *)
Body(n, newline) == [i \in 1..n |-> IF i = n /\ newline THEN "\n" ELSE "a"]

Bodies == {Body(n, nl) : n \in 1..MaxBody, nl \in BOOLEAN}

(* section and types of the chunks the base splitter hands over *)
Kinds == {[level |-> 1, path |-> <<"A">>, types |-> <<"heading">>],
          [level |-> 2, path |-> <<"A", "B">>, types |-> <<"text">>],
          [level |-> 3, path |-> <<"C", "D", "E">>, types |-> <<"structural", "text">>],
          [level |-> 2, path |-> <<"A", "F">>, types |-> <<"code", "text">>]}

Phase1Chunks ==
    {[types |-> k.types, content |-> b, section |-> [level |-> k.level, path |-> k.path]] :
        k \in Kinds, b \in Bodies}

(* A base splitter that hands over chunks of document size: bodies of 200 to *)
(* 1600 characters under the heading A, and one chunk under another H1.     *)
MaxLongChunks == 5

LongSizes == {200, 300, 900, 1600}

UnderA(n) == [types |-> <<"text">>, content |-> Body(n, FALSE),
              section |-> [level |-> 1, path |-> <<"A">>]]

LongChunks ==
    {UnderA(n) : n \in LongSizes}
        \cup {[types |-> <<"heading">>, content |-> Body(900, FALSE),
                section |-> [level |-> 1, path |-> <<"C">>]]}

(* min=500, preferred=1500, max=5000 are the configured defaults *)
LongArgs == {[baseSplitter |-> "long", min |-> 500, preferred |-> 1500, max |-> 5000],
             [baseSplitter |-> "long", min |-> 500, preferred |-> 1500, max |-> 2000]}

(* what this.baseSplitter.splitText may return, and how many chunks at most *)
initialChunks == IF splitter.baseSplitter = "long" THEN LongChunks ELSE Phase1Chunks

initialChunksLimit == IF splitter.baseSplitter = "long" THEN MaxLongChunks ELSE MaxChunks

NoChunk == [types |-> <<>>, content |-> <<>>, section |-> [level |-> 0, path |-> <<>>]]

endsWithNewline(content) == Len(content) > 0 /\ content[Len(content)] = "\n"

cloneChunk(chunk) ==
    [types |-> chunk.types, content |-> chunk.content,
     section |-> [level |-> chunk.section.level, path |-> chunk.section.path]]

startsNewMajorSection(chunk) == chunk.section.level = 1 \/ chunk.section.level = 2

isPathIncluded(parentPath, childPath) ==
    IF Len(parentPath) >= Len(childPath) THEN FALSE
    ELSE \A i \in DOMAIN parentPath : parentPath[i] = childPath[i]

isSameSection(chunk1, chunk2) ==
    LET path1 == chunk1.section.path
        path2 == chunk2.section.path
    IN \/ (Len(path1) = Len(path2) /\ \A i \in DOMAIN path1 : path1[i] = path2[i])
       \/ isPathIncluded(path1, path2)
       \/ isPathIncluded(path2, path1)

RECURSIVE findCommonPrefix(_, _)
findCommonPrefix(path1, path2) ==
    IF path1 = <<>> \/ path2 = <<>> \/ Head(path1) # Head(path2) THEN <<>>
    ELSE <<Head(path1)>> \o findCommonPrefix(Tail(path1), Tail(path2))

Min(a, b) == IF a <= b THEN a ELSE b

(* the merge that keeps the section of the current chunk *)
mergeSectionInfo_KeepCurrent(cur, next) == cur.section

mergeSectionInfo(cur, next) ==
    LET level == Min(cur.section.level, next.section.level)
    IN IF /\ cur.section.level = next.section.level
          /\ Len(cur.section.path) = Len(next.section.path)
          /\ \A i \in DOMAIN cur.section.path : cur.section.path[i] = next.section.path[i]
         THEN cur.section
       ELSE IF isPathIncluded(cur.section.path, next.section.path)
         THEN [level |-> level, path |-> next.section.path]
       ELSE IF isPathIncluded(next.section.path, cur.section.path)
         THEN [level |-> level, path |-> cur.section.path]
       ELSE [level |-> level,
             path |-> findCommonPrefix(cur.section.path, next.section.path)]

(* [...new Set([...currentTypes, ...nextTypes])]: first occurrences, in order *)
RECURSIVE Dedupe(_, _)
Dedupe(seen, rest) ==
    IF rest = <<>> THEN seen
    ELSE IF \E i \in DOMAIN seen : seen[i] = Head(rest)
      THEN Dedupe(seen, Tail(rest))
      ELSE Dedupe(Append(seen, Head(rest)), Tail(rest))

mergeTypes(currentTypes, nextTypes) == Dedupe(<<>>, currentTypes \o nextTypes)

separatorSize(cur) == IF endsWithNewline(cur.content) THEN 0 ELSE 1

combinedSize(cur, next) == Len(cur.content) + separatorSize(cur) + Len(next.content)

(* the hard limit on the two body lengths alone *)
ExceedsHardLimit_NoSeparator(cur, next) == Len(cur.content) + Len(next.content) > splitter.max

(* HARD LIMIT: never exceed max chunk size *)
ExceedsHardLimit(cur, next) == combinedSize(cur, next) > splitter.max

(* the structure rule without the minimum size of the current chunk *)
AtMajorBoundary_NoMinimum(cur, next) ==
    /\ startsNewMajorSection(next)
    /\ ~isSameSection(cur, next)

(* STRUCTURE > SIZE: a major section starts and the current chunk is large enough *)
AtMajorBoundary(cur, next) ==
    /\ Len(cur.content) >= splitter.min
    /\ startsNewMajorSection(next)
    /\ ~isSameSection(cur, next)

(* the size rule without its two minimum-size conditions *)
ExceedsPreferred_NoMinimum(cur, next) == combinedSize(cur, next) > splitter.preferred

(* combining would exceed the preferred size and both sides are at min size *)
ExceedsPreferred(cur, next) ==
    /\ combinedSize(cur, next) > splitter.preferred
    /\ Len(cur.content) >= splitter.min
    /\ Len(next.content) >= splitter.min

(* the merge without the newline separator *)
mergeChunks_NoSeparator(cur, next) ==
    [content |-> cur.content \o next.content,
     section |-> mergeSectionInfo(cur, next),
     types |-> mergeTypes(cur.types, next.types)]

mergeChunks(cur, next) ==
    [content |-> cur.content
                   \o (IF endsWithNewline(cur.content) THEN <<>> ELSE <<"\n">>)
                   \o next.content,
     section |-> mergeSectionInfo(cur, next),
     types |-> mergeTypes(cur.types, next.types)]

(* the loop takes the next chunk of the base splitter's output *)
Take(nextChunk) ==
    /\ spc = "loop"
    /\ Len(consumed) < initialChunksLimit
    /\ consumed' = Append(consumed, nextChunk)
    /\ UNCHANGED <<splitter, spc>>
    /\ UNCHANGED nonSplitVars

(* push the current chunk and start a new one with nextChunk *)
PushAndRestart(nextChunk, rule) ==
    /\ concatenatedChunks' = Append(concatenatedChunks, currentChunk)
    /\ cuts' = Append(cuts, rule)
    /\ currentChunk' = cloneChunk(nextChunk)

(* else branch: there is no current chunk yet *)
SplitFirst ==
    \E nextChunk \in initialChunks :
        /\ Take(nextChunk)
        /\ currentChunk = NoChunk
        /\ currentChunk' = cloneChunk(nextChunk)
        /\ UNCHANGED <<concatenatedChunks, cuts>>

SplitHardLimit ==
    \E nextChunk \in initialChunks :
        /\ Take(nextChunk)
        /\ currentChunk # NoChunk
        /\ ExceedsHardLimit(currentChunk, nextChunk)
        /\ PushAndRestart(nextChunk, "hard")

SplitMajorSection ==
    \E nextChunk \in initialChunks :
        /\ Take(nextChunk)
        /\ currentChunk # NoChunk
        /\ ~ExceedsHardLimit(currentChunk, nextChunk)
        /\ AtMajorBoundary(currentChunk, nextChunk)
        /\ PushAndRestart(nextChunk, "major")

SplitPreferredSize ==
    \E nextChunk \in initialChunks :
        /\ Take(nextChunk)
        /\ currentChunk # NoChunk
        /\ ~ExceedsHardLimit(currentChunk, nextChunk)
        /\ ~AtMajorBoundary(currentChunk, nextChunk)
        /\ ExceedsPreferred(currentChunk, nextChunk)
        /\ PushAndRestart(nextChunk, "preferred")

SplitMerge ==
    \E nextChunk \in initialChunks :
        /\ Take(nextChunk)
        /\ currentChunk # NoChunk
        /\ ~ExceedsHardLimit(currentChunk, nextChunk)
        /\ ~AtMajorBoundary(currentChunk, nextChunk)
        /\ ~ExceedsPreferred(currentChunk, nextChunk)
        /\ currentChunk' = mergeChunks(currentChunk, nextChunk)
        /\ UNCHANGED <<concatenatedChunks, cuts>>

(* the base splitter's output is exhausted: push what is left and return *)
SplitReturn ==
    /\ spc = "loop"
    /\ spc' = "returned"
    /\ IF currentChunk # NoChunk
         THEN /\ concatenatedChunks' = Append(concatenatedChunks, currentChunk)
              /\ cuts' = Append(cuts, "end")
         ELSE UNCHANGED <<concatenatedChunks, cuts>>
    /\ UNCHANGED <<splitter, consumed, currentChunk>>
    /\ UNCHANGED nonSplitVars

SplitInit ==
    /\ splitter \in SplitterArgs
    /\ spc = "loop"
    /\ consumed = <<>>
    /\ currentChunk = NoChunk
    /\ concatenatedChunks = <<>>
    /\ cuts = <<>>

SplitNext ==
    \/ SplitFirst
    \/ SplitHardLimit
    \/ SplitMajorSection
    \/ SplitPreferredSize
    \/ SplitMerge
    \/ SplitReturn

----------------------------------------------------------------------------
(* DocumentStore.escapeFtsQuery *)

MaxQuery == 5

QueryChars == {"a", "b", " ", "\t", "\""}

(* foo "bar baz" qux"unbalanced *)
SampleQuery ==
    <<"f", "o", "o", " ", "\"", "b", "a", "r", " ", "b", "a", "z", "\"", " ",
      "q", "u", "x", "\"", "u", "n", "b", "a", "l", "a", "n", "c", "e", "d">>

Queries == SeqsUpTo(QueryChars, MaxQuery) \cup {SampleQuery}

(* token.replace(/"/g, '""') *)
RECURSIVE escapeQuotes(_)
escapeQuotes(token) ==
    IF token = <<>> THEN <<>>
    ELSE (IF Head(token) = "\"" THEN <<"\"", "\"">> ELSE <<Head(token)>>)
             \o escapeQuotes(Tail(token))

(* the token emitted as it is, without the surrounding quotes *)
quoted_Bare(token) == escapeQuotes(token)

(* `"${escaped}"` *)
quoted(token) == <<"\"">> \o escapeQuotes(token) \o <<"\"">>

(* Array.prototype.join *)
RECURSIVE join(_, _)
join(strings, separator) ==
    IF strings = <<>> THEN <<>>
    ELSE IF Len(strings) = 1 THEN strings[1]
    ELSE strings[1] \o separator \o join(Tail(strings), separator)

escapedTokens(toks) == [i \in DOMAIN toks |-> quoted(toks[i])]

exactMatch(toks) == quoted(join(toks, <<" ">>))

termsQuery(toks) == join(escapedTokens(toks), <<" ", "O", "R", " ">>)

(* what is returned for the tokens found *)
buildQuery(toks) ==
    IF Len(toks) = 0 THEN <<"\"", "\"">>
    ELSE IF Len(toks) = 1 THEN escapedTokens(toks)[1]
    ELSE exactMatch(toks) \o <<" ", "O", "R", " ">> \o termsQuery(toks)

(* if (currentToken.length > 0) { tokens.push(currentToken); currentToken = "" } *)
pushToken(toks, token) == IF Len(token) > 0 THEN Append(toks, token) ELSE toks

char == query[charIndex + 1]

InLoop == ftsQuery = NULL /\ charIndex < Len(query)

(* a quote while in a phrase: save the phrase token, leave quote mode *)
FtsClosingQuote ==
    /\ InLoop
    /\ char = "\""
    /\ inQuote
    /\ tokens' = pushToken(tokens, currentToken)
    /\ currentToken' = <<>>
    /\ inQuote' = FALSE
    /\ charIndex' = charIndex + 1
    /\ UNCHANGED <<query, ftsQuery>>
    /\ UNCHANGED nonFtsVars

(* a quote outside a phrase: save the accumulated word, enter quote mode *)
FtsOpeningQuote ==
    /\ InLoop
    /\ char = "\""
    /\ ~inQuote
    /\ tokens' = pushToken(tokens, currentToken)
    /\ currentToken' = <<>>
    /\ inQuote' = TRUE
    /\ charIndex' = charIndex + 1
    /\ UNCHANGED <<query, ftsQuery>>
    /\ UNCHANGED nonFtsVars

(* whitespace outside quotes separates tokens *)
FtsSeparator ==
    /\ InLoop
    /\ char = " "
    /\ ~inQuote
    /\ tokens' = pushToken(tokens, currentToken)
    /\ currentToken' = <<>>
    /\ charIndex' = charIndex + 1
    /\ UNCHANGED <<query, inQuote, ftsQuery>>
    /\ UNCHANGED nonFtsVars

(* a regular character is accumulated *)
FtsAccumulate ==
    /\ InLoop
    /\ char # "\""
    /\ ~(char = " " /\ ~inQuote)
    /\ currentToken' = Append(currentToken, char)
    /\ charIndex' = charIndex + 1
    /\ UNCHANGED <<query, tokens, inQuote, ftsQuery>>
    /\ UNCHANGED nonFtsVars

(* after the loop: save the remaining token, escape, build and return *)
FtsReturn ==
    /\ ftsQuery = NULL
    /\ charIndex = Len(query)
    /\ tokens' = pushToken(tokens, currentToken)
    /\ ftsQuery' = buildQuery(tokens')
    /\ UNCHANGED <<query, charIndex, currentToken, inQuote>>
    /\ UNCHANGED nonFtsVars

FtsIdle ==
    /\ query = <<>>
    /\ charIndex = 0
    /\ tokens = <<>>
    /\ currentToken = <<>>
    /\ inQuote = FALSE
    /\ ftsQuery = NULL

FtsInit ==
    /\ query \in Queries
    /\ charIndex = 0
    /\ tokens = <<>>
    /\ currentToken = <<>>
    /\ inQuote = FALSE
    /\ ftsQuery = NULL

FtsNext ==
    \/ FtsClosingQuote
    \/ FtsOpeningQuote
    \/ FtsSeparator
    \/ FtsAccumulate
    \/ FtsReturn

----------------------------------------------------------------------------
(* DocumentStore: embeddings *)

(* an optional number: undefined / NULL, or a value *)
Undefined == <<>>
Defined(n) == <<n>>

(* embeddingConfig === null *)
NoEmbeddingConfig == [provider |-> "none", dimensions |-> Undefined]

(* this.dbDimension = config.embeddings.vectorDimension *)
dbDimension == 2

(* vectors an embedding provider may return: d components, d up to dbDimension + 1 *)
ProviderVectors == {[i \in 1..d |-> 1] : d \in 1..(dbDimension + 1)}

(* embedding model specifications: none, or a provider with known or unknown dimensions *)
EmbeddingConfigs ==
    {NoEmbeddingConfig}
        \cup {[provider |-> "openai", dimensions |-> n] :
                 n \in {Undefined} \cup {Defined(d) : d \in 1..(dbDimension + 1)}}

(* no vector is rejected for its dimension *)
padVectorThrows_Never(vector) == FALSE

padVectorThrows(vector) == Len(vector) > dbDimension

(* the vector as the provider returned it, nothing appended *)
padVector_NoPadding(vector) == vector

padVector(vector) ==
    IF Len(vector) = dbDimension THEN vector
    ELSE vector \o [i \in 1..(dbDimension - Len(vector)) |-> 0]

getActiveEmbeddingConfig ==
    IF ~isVectorSearchEnabled \/ embeddingConfig = NoEmbeddingConfig
      THEN NoEmbeddingConfig ELSE embeddingConfig

(* the credentials check left out *)
embeddingsSkipped_IgnoreCredentials(config, credentials) == config = NoEmbeddingConfig

(* initializeEmbeddings returns early: no config, or no credentials for the provider *)
embeddingsSkipped(config, credentials) == config = NoEmbeddingConfig \/ ~credentials

(* initialize(): initializeEmbeddings returns without creating a model *)
InitializeSkipped ==
    /\ initialized = "new"
    /\ embeddingsSkipped(embeddingConfig, credentialsAvailable)
    /\ initialized' = "ok"
    /\ UNCHANGED <<embeddingConfig, credentialsAvailable, modelDimension,
                   isVectorSearchEnabled, searchWeightVec, searchWeightFts>>
    /\ UNCHANGED <<storeVars, splitVars, ftsVars, vecVars, searchVars, playVars, restVars>>

(* the dimension check and what follows it *)
InitializeWithDimension(dimension) ==
    /\ modelDimension' = dimension
    /\ IF dimension > dbDimension
         THEN /\ initialized' = "failed"
              /\ UNCHANGED isVectorSearchEnabled
         ELSE /\ initialized' = "ok"
              /\ isVectorSearchEnabled' = TRUE
    /\ UNCHANGED <<embeddingConfig, credentialsAvailable, searchWeightVec, searchWeightFts>>
    /\ UNCHANGED <<rawEmbeddings, paddedEmbeddings, embeddingsWritten>>
    /\ UNCHANGED <<storeVars, splitVars, ftsVars, searchVars, playVars, restVars>>

(* initialize(): the model's dimensions are known from the configuration *)
InitializeKnownDimension ==
    /\ initialized = "new"
    /\ ~embeddingsSkipped(embeddingConfig, credentialsAvailable)
    /\ embeddingConfig.dimensions # Undefined
    /\ InitializeWithDimension(embeddingConfig.dimensions[1])
    /\ UNCHANGED embeddingsCalled

(* initialize(): the dimension is found by embedding a test string *)
InitializeDetectDimension ==
    /\ initialized = "new"
    /\ ~embeddingsSkipped(embeddingConfig, credentialsAvailable)
    /\ embeddingConfig.dimensions = Undefined
    /\ \E testVector \in ProviderVectors : InitializeWithDimension(Len(testVector))
    /\ embeddingsCalled' = TRUE

(* initialize(): createEmbeddingModel or the test query throws *)
InitializeThrows ==
    /\ initialized = "new"
    /\ ~embeddingsSkipped(embeddingConfig, credentialsAvailable)
    /\ initialized' = "failed"
    /\ UNCHANGED <<embeddingConfig, credentialsAvailable, modelDimension,
                   isVectorSearchEnabled, searchWeightVec, searchWeightFts>>
    /\ UNCHANGED <<storeVars, splitVars, ftsVars, vecVars, searchVars, playVars, restVars>>

(* addDocuments: embed the chunk texts (one vector per text), pad every vector *)
AddEmbed ==
    /\ pc = "embed"
    /\ \E raw \in [1..Len(call.chunks) -> ProviderVectors] :
         /\ rawEmbeddings' = raw
         /\ embeddingsCalled' = TRUE
         /\ IF \E i \in DOMAIN raw : padVectorThrows(raw[i])
              THEN /\ pc' = "done"
                   /\ ret' = [ret EXCEPT !.outcome = "thrown"]
                   /\ UNCHANGED paddedEmbeddings
              ELSE /\ pc' = "insertLibrary"
                   /\ paddedEmbeddings' = [i \in DOMAIN raw |-> padVector(raw[i])]
                   /\ UNCHANGED ret
    /\ UNCHANGED <<libraries, versions, pages, documents, call, pre, repeat>>
    /\ UNCHANGED embeddingsWritten
    /\ UNCHANGED nonStoreVars

----------------------------------------------------------------------------
(* DocumentStore.findByContent *)

MaxMatches == 3
MaxDistance == 1
MaxBm25 == 2

(* calculateRRF default parameter k *)
kDefault == 60

SearchTypes == {<<"text">>, <<"structural">>, <<"text", "structural">>}

(* what the two indexes hold about one chunk for the query: its vector distance *)
(* if it is among the nearest neighbours, its bm25 value (negative, lower is    *)
(* better) if the full text matches                                             *)
MatchAttributes ==
    [types : SearchTypes,
     vec_distance : {Undefined} \cup {Defined(d) : d \in 0..MaxDistance},
     bm25 : {Undefined} \cup {Defined(0 - n) : n \in 1..MaxBm25}]

MatchSets ==
    {{[id |-> i, types |-> f[i].types, vec_distance |-> f[i].vec_distance,
       bm25 |-> f[i].bm25] : i \in 1..MaxMatches} : f \in [1..MaxMatches -> MatchAttributes]}

Limits == {1, MaxMatches}

WeightArgs == {1, 2}

(* exact fractions for the scores *)
Frac(n, d) == [num |-> n, den |-> d]
FracAdd(a, b) == Frac(a.num * b.den + b.num * a.den, a.den * b.den)
FracLess(a, b) == a.num * b.den < b.num * a.den
FracEq(a, b) == a.num * b.den = b.num * a.den

Perms(S) ==
    {p \in [1..Cardinality(S) -> S] : \A i, j \in 1..Cardinality(S) : i # j => p[i] # p[j]}

HasStructural(types) == \E i \in DOMAIN types : types[i] = "structural"

(* NOT EXISTS (SELECT 1 FROM json_each(... '$.types') je WHERE je.value = 'structural') *)
FilteredOut(types) == HasStructural(types)

(* hybrid SELECT: the rows of the outer query with the two COALESCEd scores *)
HybridRows(ms) ==
    {[id |-> m.id, types |-> m.types,
      vec_score |-> IF m.vec_distance = Undefined THEN Frac(0, 1)
                    ELSE Frac(1, 1 + m.vec_distance[1]),
      fts_score |-> IF m.bm25 = Undefined THEN Frac(0, 1)
                    ELSE Frac(0 - (IF m.bm25[1] < 0 THEN m.bm25[1] ELSE 0), 1)] :
        m \in {r \in ms : /\ (r.vec_distance # Undefined \/ r.bm25 # Undefined)
                          /\ ~FilteredOut(r.types)}}

(* FTS-only SELECT: the matching rows *)
FtsRows(ms) == {m \in ms : m.bm25 # Undefined /\ ~FilteredOut(m.types)}

(* position (1-based) of element p after a stable sort by descending key *)
StableRank(keys, p) ==
    1 + Cardinality({q \in DOMAIN keys :
                        \/ FracLess(keys[p], keys[q])
                        \/ (FracEq(keys[p], keys[q]) /\ q < p)})

(* Array.prototype.sort((a, b) => b.key - a.key) *)
SortDescending(rows, keys) ==
    [r \in DOMAIN rows |-> rows[CHOOSE p \in DOMAIN rows : StableRank(keys, p) = r]]

(* the rank in the numerator's place: a lower rank scores less *)
RRF_RankAsNumerator(vecRank, ftsRank, k, weightVec, weightFts) ==
    FracAdd(IF vecRank # Undefined THEN Frac(weightVec * (k + vecRank[1]), 1) ELSE Frac(0, 1),
            IF ftsRank # Undefined THEN Frac(weightFts * (k + ftsRank[1]), 1) ELSE Frac(0, 1))

(* the sum of the terms of the ranks that are defined *)
RRF(vecRank, ftsRank, k, weightVec, weightFts) ==
    FracAdd(IF vecRank # Undefined THEN Frac(weightVec, k + vecRank[1]) ELSE Frac(0, 1),
            IF ftsRank # Undefined THEN Frac(weightFts, k + ftsRank[1]) ELSE Frac(0, 1))

calculateRRF(vecRank, ftsRank) ==
    RRF(vecRank, ftsRank, kDefault, searchWeightVec, searchWeightFts)

(* every raw row carries a vec_score and an fts_score (never undefined), so *)
(* both filters keep every row                                             *)
assignRanks(raw) ==
    LET vecKeys == [p \in DOMAIN raw |-> raw[p].vec_score]
        ftsKeys == [p \in DOMAIN raw |-> raw[p].fts_score]
    IN [p \in DOMAIN raw |->
          [id |-> raw[p].id, types |-> raw[p].types,
           vec_score |-> raw[p].vec_score, fts_score |-> raw[p].fts_score,
           vec_rank |-> Defined(StableRank(vecKeys, p)),
           fts_rank |-> Defined(StableRank(ftsKeys, p)),
           rrf_score |-> calculateRRF(Defined(StableRank(vecKeys, p)),
                                      Defined(StableRank(ftsKeys, p)))]]

(* rankedResults.sort((a, b) => b.rrf_score - a.rrf_score).slice(0, limit) *)
topResults(ranked, n) ==
    LET sorted == SortDescending(ranked, [p \in DOMAIN ranked |-> ranked[p].rrf_score])
    IN SubSeq(sorted, 1, IF n < Len(sorted) THEN n ELSE Len(sorted))

(* findByContent(library, version, query, limit) with a query that is not blank *)
CallFindByContent ==
    /\ fpc = "idle"
    /\ pc = "idle"
    /\ initialized = "ok"
    /\ \E n \in Limits : limit' = n
    /\ fpc' = IF isVectorSearchEnabled THEN "embedQuery" ELSE "fts"
    /\ queryVector' = <<>>
    /\ rawResults' = <<>>
    /\ rankedResults' = <<>>
    /\ results' = <<>>
    /\ UNCHANGED matches
    /\ UNCHANGED vecVars
    /\ UNCHANGED nonSearchVars

(* hybrid: embeddings.embedQuery(query), padVector(rawEmbedding) *)
FindEmbedQuery ==
    /\ fpc = "embedQuery"
    /\ embeddingsCalled' = TRUE
    /\ \E rawEmbedding \in ProviderVectors :
         IF padVectorThrows(rawEmbedding)
           THEN /\ fpc' = "thrown"
                /\ UNCHANGED queryVector
           ELSE /\ fpc' = "hybrid"
                /\ queryVector' = padVector(rawEmbedding)
    /\ UNCHANGED <<matches, limit, rawResults, rankedResults, results>>
    /\ UNCHANGED <<rawEmbeddings, paddedEmbeddings, embeddingsWritten>>
    /\ UNCHANGED nonSearchVars

(* hybrid: stmt.all(...); the outer query has no ORDER BY *)
FindHybridSelect ==
    /\ fpc = "hybrid"
    /\ rawResults' \in Perms(HybridRows(matches))
    /\ fpc' = "rank"
    /\ UNCHANGED <<matches, limit, queryVector, rankedResults, results>>
    /\ UNCHANGED vecVars
    /\ UNCHANGED nonSearchVars

(* hybrid: assignRanks, sort by rrf_score, slice, map to the returned rows *)
FindRank ==
    /\ fpc = "rank"
    /\ rankedResults' = assignRanks(rawResults)
    /\ results' = LET top == topResults(rankedResults', limit)
                  IN [i \in DOMAIN top |->
                        [id |-> top[i].id, types |-> top[i].types,
                         score |-> top[i].rrf_score,
                         vec_rank |-> top[i].vec_rank, fts_rank |-> top[i].fts_rank]]
    /\ fpc' = "done"
    /\ UNCHANGED <<matches, limit, queryVector, rawResults>>
    /\ UNCHANGED vecVars
    /\ UNCHANGED nonSearchVars

(* FTS only: SELECT ... ORDER BY fts_score LIMIT ?, ranks by position *)
FindFts ==
    /\ fpc = "fts"
    /\ \E ordered \in Perms(FtsRows(matches)) :
         /\ \A i, j \in DOMAIN ordered : i < j => ordered[i].bm25[1] <= ordered[j].bm25[1]
         /\ LET rows == SubSeq(ordered, 1, IF limit < Len(ordered) THEN limit ELSE Len(ordered))
            IN results' = [i \in DOMAIN rows |->
                             [id |-> rows[i].id, types |-> rows[i].types,
                              score |-> Frac(0 - rows[i].bm25[1], 1),
                              vec_rank |-> Undefined, fts_rank |-> Defined(i)]]
    /\ fpc' = "done"
    /\ UNCHANGED <<matches, limit, queryVector, rawResults, rankedResults>>
    /\ UNCHANGED vecVars
    /\ UNCHANGED nonSearchVars

(* findByContent throws: the provider or a statement failed *)
FindThrows ==
    /\ fpc \in {"embedQuery", "hybrid", "rank", "fts"}
    /\ fpc' = "thrown"
    /\ UNCHANGED <<matches, limit, queryVector, rawResults, rankedResults, results>>
    /\ UNCHANGED vecVars
    /\ UNCHANGED nonSearchVars

(* the caller takes the result *)
FindReturn ==
    /\ fpc \in {"done", "thrown"}
    /\ fpc' = "idle"
    /\ limit' = 0
    /\ queryVector' = <<>>
    /\ rawResults' = <<>>
    /\ rankedResults' = <<>>
    /\ results' = <<>>
    /\ UNCHANGED matches
    /\ UNCHANGED vecVars
    /\ UNCHANGED nonSearchVars

(* a store whose initialize() found no embedding model: full-text search only *)
ConfigFtsOnly ==
    /\ embeddingConfig = NoEmbeddingConfig
    /\ credentialsAvailable = FALSE
    /\ initialized = "ok"
    /\ modelDimension = 0
    /\ isVectorSearchEnabled = FALSE
    /\ searchWeightVec = 1
    /\ searchWeightFts = 1

VecIdle ==
    /\ embeddingsCalled = FALSE
    /\ rawEmbeddings = <<>>
    /\ paddedEmbeddings = <<>>
    /\ embeddingsWritten = {}

SearchIdle ==
    /\ fpc = "idle"
    /\ matches = {}
    /\ limit = 0
    /\ queryVector = <<>>
    /\ rawResults = <<>>
    /\ rankedResults = <<>>
    /\ results = <<>>

----------------------------------------------------------------------------
(* HtmlPlaywrightMiddleware.process *)

MaxFrames == 2

(* what process is called with: the content type is HTML or not, the scrape   *)
(* mode asks for Playwright or not, the URL carries credentials or not, and   *)
(* the number of frame URLs the rendered page's framesets name                *)
Sources ==
    [isHtml : BOOLEAN, shouldRunPlaywright : BOOLEAN, credentials : BOOLEAN,
     frames : 0..MaxFrames]

Closing == {"open", "closed"}

(* the catch block of process: the error is pushed to context.errors *)
Caught ==
    /\ contextErrors' = contextErrors + 1
    /\ mpc' = "finally"

(* the early return without the call of next *)
afterSkip_ReturnOnly == "returned"

(* the early returns: await next(); return *)
afterSkip == "next"

(* process with content that is not HTML or a scrape mode without Playwright: *)
(* await next(); return                                                       *)
ProcessSkip ==
    /\ mpc = "start"
    /\ ~source.isHtml \/ ~source.shouldRunPlaywright
    /\ mpc' = afterSkip
    /\ UNCHANGED <<source, browserContext, page, framePages, framePc, frameUrls,
                   renderedHtml, contextErrors>>
    /\ UNCHANGED <<nextCalls, contextContent>>
    /\ UNCHANGED nonPlayVars

(* const browser = await this.ensureBrowser() *)
ProcessEnsureBrowser ==
    /\ mpc = "start"
    /\ source.isHtml /\ source.shouldRunPlaywright
    /\ \/ mpc' = "newContext" /\ UNCHANGED contextErrors
       \/ Caught
    /\ UNCHANGED <<source, browserContext, page, framePages, framePc, frameUrls, renderedHtml>>
    /\ UNCHANGED <<nextCalls, contextContent>>
    /\ UNCHANGED nonPlayVars

(* browserContext = await browser.newContext(...), with or without credentials *)
ProcessNewContext ==
    /\ mpc = "newContext"
    /\ \/ browserContext' = "open" /\ mpc' = "newPage" /\ UNCHANGED contextErrors
       \/ Caught /\ UNCHANGED browserContext
    /\ UNCHANGED <<source, page, framePages, framePc, frameUrls, renderedHtml>>
    /\ UNCHANGED <<nextCalls, contextContent>>
    /\ UNCHANGED nonPlayVars

(* page = await browserContext.newPage() *)
ProcessNewPage ==
    /\ mpc = "newPage"
    /\ \/ page' = "open" /\ mpc' = "route" /\ UNCHANGED contextErrors
       \/ Caught /\ UNCHANGED page
    /\ UNCHANGED <<source, browserContext, framePages, framePc, frameUrls, renderedHtml>>
    /\ UNCHANGED <<nextCalls, contextContent>>
    /\ UNCHANGED nonPlayVars

(* injectShadowDOMExtractor(page), page.route("**/*", ...) *)
ProcessRoute ==
    /\ mpc = "route"
    /\ \/ mpc' = "goto" /\ UNCHANGED contextErrors
       \/ Caught
    /\ UNCHANGED <<source, browserContext, page, framePages, framePc, frameUrls, renderedHtml>>
    /\ UNCHANGED <<nextCalls, contextContent>>
    /\ UNCHANGED nonPlayVars

(* page.goto, waitForSelector, waitForLoadState (its timeout is swallowed), *)
(* waitForLoadingToComplete, waitForIframesToLoad                           *)
ProcessGoto ==
    /\ mpc = "goto"
    /\ \/ /\ mpc' = "framesets"
          /\ frameUrls' = source.frames
          /\ UNCHANGED contextErrors
       \/ Caught /\ UNCHANGED frameUrls
    /\ UNCHANGED <<source, browserContext, page, framePages, framePc, renderedHtml>>
    /\ UNCHANGED <<nextCalls, contextContent>>
    /\ UNCHANGED nonPlayVars

(* fetchFrameContent: the frame is in the resource cache, no page is created *)
FrameCacheHit ==
    /\ mpc = "framesets"
    /\ framePc = "none"
    /\ frameUrls > 0
    /\ frameUrls' = frameUrls - 1
    /\ UNCHANGED <<mpc, source, browserContext, page, framePages, framePc, renderedHtml,
                   contextErrors>>
    /\ UNCHANGED <<nextCalls, contextContent>>
    /\ UNCHANGED nonPlayVars

(* fetchFrameContent: framePage = await parentPage.context().newPage(); when it *)
(* throws, the catch returns "" and the finally finds framePage null            *)
FrameNewPage ==
    /\ mpc = "framesets"
    /\ framePc = "none"
    /\ frameUrls > 0
    /\ \/ /\ framePages' = Append(framePages, "open")
          /\ framePc' = "fetch"
          /\ UNCHANGED frameUrls
       \/ /\ frameUrls' = frameUrls - 1
          /\ UNCHANGED <<framePages, framePc>>
    /\ UNCHANGED <<mpc, source, browserContext, page, renderedHtml, contextErrors>>
    /\ UNCHANGED <<nextCalls, contextContent>>
    /\ UNCHANGED nonPlayVars

(* fetchFrameContent: route interception, goto, waitForSelector, $eval; an *)
(* error is caught and "" returned; either way the finally block runs      *)
FrameFetch ==
    /\ framePc = "fetch"
    /\ framePc' = "unroute"
    /\ UNCHANGED <<mpc, source, browserContext, page, framePages, frameUrls, renderedHtml,
                   contextErrors>>
    /\ UNCHANGED <<nextCalls, contextContent>>
    /\ UNCHANGED nonPlayVars

(* fetchFrameContent finally: await framePage.unroute("**/*"); when it throws, *)
(* framePage.close() is not reached and the loop of waitForFramesetsToLoad     *)
(* catches the error                                                           *)
FrameUnroute ==
    /\ framePc = "unroute"
    /\ \/ framePc' = "close" /\ UNCHANGED frameUrls
       \/ framePc' = "none" /\ frameUrls' = frameUrls - 1
    /\ UNCHANGED <<mpc, source, browserContext, page, framePages, renderedHtml, contextErrors>>
    /\ UNCHANGED <<nextCalls, contextContent>>
    /\ UNCHANGED nonPlayVars

(* fetchFrameContent finally: await framePage.close(); a close that throws may *)
(* or may not have closed the page                                             *)
FrameClose ==
    /\ framePc = "close"
    /\ \E after \in Closing :
         framePages' = [framePages EXCEPT ![Len(framePages)] = after]
    /\ framePc' = "none"
    /\ frameUrls' = frameUrls - 1
    /\ UNCHANGED <<mpc, source, browserContext, page, renderedHtml, contextErrors>>
    /\ UNCHANGED <<nextCalls, contextContent>>
    /\ UNCHANGED nonPlayVars

(* waitForFramesetsToLoad returns: every frame fetched, or page.$$, *)
(* extractFrameUrls or mergeFrameContents threw and the error was   *)
(* caught                                                           *)
FramesetsDone ==
    /\ mpc = "framesets"
    /\ framePc = "none"
    /\ mpc' = "extract"
    /\ frameUrls' = 0
    /\ UNCHANGED <<source, browserContext, page, framePages, framePc, renderedHtml,
                   contextErrors>>
    /\ UNCHANGED <<nextCalls, contextContent>>
    /\ UNCHANGED nonPlayVars

(* extractContentWithShadowDOMSupport(page); renderedHtml = content *)
ProcessExtract ==
    /\ mpc = "extract"
    /\ \/ renderedHtml' = TRUE /\ mpc' = "finally" /\ UNCHANGED contextErrors
       \/ Caught /\ UNCHANGED renderedHtml
    /\ UNCHANGED <<source, browserContext, page, framePages, framePc, frameUrls>>
    /\ UNCHANGED <<nextCalls, contextContent>>
    /\ UNCHANGED nonPlayVars

(* finally: if (page) { unroute; close }  if (browserContext) { close } *)
ProcessFinally ==
    /\ mpc = "finally"
    /\ mpc' = IF page # "null" THEN "unroute"
              ELSE IF browserContext # "null" THEN "closeContext" ELSE "update"
    /\ UNCHANGED <<source, browserContext, page, framePages, framePc, frameUrls,
                   renderedHtml, contextErrors>>
    /\ UNCHANGED <<nextCalls, contextContent>>
    /\ UNCHANGED nonPlayVars

(* finally: await page.unroute("**/*"); when it throws, process throws *)
ProcessUnroute ==
    /\ mpc = "unroute"
    /\ mpc' \in {"closePage", "thrown"}
    /\ UNCHANGED <<source, browserContext, page, framePages, framePc, frameUrls,
                   renderedHtml, contextErrors>>
    /\ UNCHANGED <<nextCalls, contextContent>>
    /\ UNCHANGED nonPlayVars

(* finally: await page.close(); when it throws, process throws *)
ProcessClosePage ==
    /\ mpc = "closePage"
    /\ \/ /\ page' = "closed"
          /\ mpc' = IF browserContext # "null" THEN "closeContext" ELSE "update"
       \/ /\ page' \in Closing
          /\ mpc' = "thrown"
    /\ UNCHANGED <<source, browserContext, framePages, framePc, frameUrls, renderedHtml,
                   contextErrors>>
    /\ UNCHANGED <<nextCalls, contextContent>>
    /\ UNCHANGED nonPlayVars

(* finally: await browserContext.close(); when it throws, process throws and *)
(* the context is one whose close() was called and failed                    *)
ProcessCloseContext ==
    /\ mpc = "closeContext"
    /\ \/ browserContext' = "closed" /\ mpc' = "update"
       \/ browserContext' = "closeFailed" /\ mpc' = "thrown"
    /\ UNCHANGED <<source, page, framePages, framePc, frameUrls, renderedHtml, contextErrors>>
    /\ UNCHANGED <<nextCalls, contextContent>>
    /\ UNCHANGED nonPlayVars

ProcessUpdate_Always ==
    /\ mpc = "update"
    /\ mpc' = "next"
    /\ contextContent' = "rendered"
    /\ UNCHANGED <<source, browserContext, page, framePages, framePc, frameUrls,
                   renderedHtml, contextErrors>>
    /\ UNCHANGED nextCalls
    /\ UNCHANGED nonPlayVars

(* if (renderedHtml !== null) context.content = renderedHtml; otherwise the *)
(* content is left alone                                                   *)
ProcessUpdate ==
    /\ mpc = "update"
    /\ mpc' = "next"
    /\ contextContent' = IF renderedHtml THEN "rendered" ELSE contextContent
    /\ UNCHANGED <<source, browserContext, page, framePages, framePc, frameUrls,
                   renderedHtml, contextErrors>>
    /\ UNCHANGED nextCalls
    /\ UNCHANGED nonPlayVars

(* await next(): the rest of the pipeline returns or throws *)
ProcessNext ==
    /\ mpc = "next"
    /\ nextCalls' = nextCalls + 1
    /\ mpc' \in {"returned", "thrown"}
    /\ UNCHANGED contextContent
    /\ UNCHANGED <<source, browserContext, page, framePages, framePc, frameUrls,
                   renderedHtml, contextErrors>>
    /\ UNCHANGED nonPlayVars

PlayLocals ==
    /\ browserContext = "null"
    /\ page = "null"
    /\ framePages = <<>>
    /\ framePc = "none"
    /\ frameUrls = 0
    /\ renderedHtml = FALSE
    /\ contextErrors = 0
    /\ nextCalls = 0
    /\ contextContent = "initial"

PlayIdle ==
    /\ mpc = "off"
    /\ source = [isHtml |-> FALSE, shouldRunPlaywright |-> FALSE, credentials |-> FALSE,
                 frames |-> 0]
    /\ PlayLocals

PlayInit ==
    /\ mpc = "start"
    /\ source \in Sources
    /\ PlayLocals

PlayNext ==
    \/ ProcessSkip
    \/ ProcessEnsureBrowser
    \/ ProcessNewContext
    \/ ProcessNewPage
    \/ ProcessRoute
    \/ ProcessGoto
    \/ FrameCacheHit
    \/ FrameNewPage
    \/ FrameFetch
    \/ FrameUnroute
    \/ FrameClose
    \/ FramesetsDone
    \/ ProcessExtract
    \/ ProcessFinally
    \/ ProcessUnroute
    \/ ProcessClosePage
    \/ ProcessCloseContext
    \/ ProcessUpdate
    \/ ProcessNext

----------------------------------------------------------------------------
(* HtmlPlaywrightMiddleware.ensureBrowser and closeBrowser *)

MaxCallers == 2
MaxBrowsers == 3

Callers == 1..MaxCallers

Connected(b) == b # 0 /\ launched[b] = "connected"

(* the "disconnected" handler registered at launch: this.browser = null, *)
(* whichever browser this.browser refers to by then                      *)
disconnectedHandler(ref) == 0

(* if (!this.browser || !this.browser.isConnected()) *)
EnsureCheck(p) ==
    /\ ensurePc[p] = "idle"
    /\ ensurePc' = [ensurePc EXCEPT ![p] = IF Connected(browser) THEN "returned"
                                            ELSE "launching"]
    /\ UNCHANGED <<browser, launched, eventsPending, closePc, closeCalls>>
    /\ UNCHANGED nonBrowserVars

(* this.browser = await BrowserFetcher.launchBrowser(); this.browser.on(...) *)
EnsureLaunched(p) ==
    /\ ensurePc[p] = "launching"
    /\ Len(launched) < MaxBrowsers
    /\ launched' = Append(launched, "connected")
    /\ browser' = Len(launched) + 1
    /\ ensurePc' = [ensurePc EXCEPT ![p] = "returned"]
    /\ UNCHANGED <<eventsPending, closePc, closeCalls>>
    /\ UNCHANGED nonBrowserVars

(* BrowserFetcher.launchBrowser() rejects *)
EnsureLaunchThrows(p) ==
    /\ ensurePc[p] = "launching"
    /\ ensurePc' = [ensurePc EXCEPT ![p] = "thrown"]
    /\ UNCHANGED <<browser, launched, eventsPending, closePc, closeCalls>>
    /\ UNCHANGED nonBrowserVars

(* the process call that asked for the browser has ended *)
EnsureReturn(p) ==
    /\ ensurePc[p] \in {"returned", "thrown"}
    /\ ensurePc' = [ensurePc EXCEPT ![p] = "idle"]
    /\ UNCHANGED <<browser, launched, eventsPending, closePc, closeCalls>>
    /\ UNCHANGED nonBrowserVars

(* a browser crashes or is killed: isConnected() is false from now on and *)
(* the "disconnected" event is emitted                                    *)
Disconnect(b) ==
    /\ launched[b] = "connected"
    /\ launched' = [launched EXCEPT ![b] = "disconnected"]
    /\ eventsPending' = eventsPending \cup {b}
    /\ UNCHANGED <<browser, ensurePc, closePc, closeCalls>>
    /\ UNCHANGED nonBrowserVars

(* the handler of a browser's "disconnected" event runs *)
DisconnectedEvent(b) ==
    /\ b \in eventsPending
    /\ eventsPending' = eventsPending \ {b}
    /\ browser' = disconnectedHandler(browser)
    /\ UNCHANGED <<launched, ensurePc, closePc, closeCalls>>
    /\ UNCHANGED nonBrowserVars

(* closeBrowser: if (this.browser) { try { await this.browser.close() ... *)
CloseCall ==
    /\ closePc.pc = "idle"
    /\ IF browser # 0
         THEN /\ closePc' = [pc |-> "closing", target |-> browser, threw |-> FALSE]
              /\ closeCalls' = closeCalls \cup {browser}
         ELSE /\ closePc' = [pc |-> "returned", target |-> 0, threw |-> FALSE]
              /\ UNCHANGED closeCalls
    /\ UNCHANGED <<browser, launched, eventsPending, ensurePc>>
    /\ UNCHANGED nonBrowserVars

(* the reference cleared only when close() resolved *)
browserAfterClose_KeepOnError(ref, threw) == IF threw THEN ref ELSE 0

(* finally { this.browser = null } *)
browserAfterClose(ref, threw) == 0

(* browser.close() resolves: the browser is closed; a connected browser emits *)
(* "disconnected"; then the finally block                                    *)
CloseResolves ==
    /\ closePc.pc = "closing"
    /\ launched' = [launched EXCEPT ![closePc.target] = "closed"]
    /\ eventsPending' = IF launched[closePc.target] = "connected"
                          THEN eventsPending \cup {closePc.target} ELSE eventsPending
    /\ browser' = browserAfterClose(browser, FALSE)
    /\ closePc' = [closePc EXCEPT !.pc = "returned"]
    /\ UNCHANGED <<ensurePc, closeCalls>>
    /\ UNCHANGED nonBrowserVars

(* browser.close() rejects: the catch logs the error, then the finally block *)
CloseRejects ==
    /\ closePc.pc = "closing"
    /\ browser' = browserAfterClose(browser, TRUE)
    /\ closePc' = [closePc EXCEPT !.pc = "returned", !.threw = TRUE]
    /\ UNCHANGED <<launched, eventsPending, ensurePc, closeCalls>>
    /\ UNCHANGED nonBrowserVars

(* the caller of closeBrowser goes on *)
CloseReturn ==
    /\ closePc.pc = "returned"
    /\ closePc' = [pc |-> "idle", target |-> 0, threw |-> FALSE]
    /\ UNCHANGED <<browser, launched, eventsPending, ensurePc, closeCalls>>
    /\ UNCHANGED nonBrowserVars

BrowserLocals ==
    /\ browser = 0
    /\ launched = <<>>
    /\ eventsPending = {}
    /\ closePc = [pc |-> "idle", target |-> 0, threw |-> FALSE]
    /\ closeCalls = {}

BrowserIdle == BrowserLocals /\ ensurePc = [p \in Callers |-> "off"]

(* a constructed middleware: private browser: Browser | null = null *)
BrowserInit == BrowserLocals /\ ensurePc = [p \in Callers |-> "idle"]

BrowserNext ==
    \/ \E p \in Callers : EnsureCheck(p)
    \/ \E p \in Callers : EnsureLaunched(p)
    \/ \E p \in Callers : EnsureLaunchThrows(p)
    \/ \E p \in Callers : EnsureReturn(p)
    \/ \E b \in DOMAIN launched : Disconnect(b)
    \/ \E b \in DOMAIN launched : DisconnectedEvent(b)
    \/ CloseCall
    \/ CloseResolves
    \/ CloseRejects
    \/ CloseReturn

(* HtmlPlaywrightMiddleware.resourceCache and the code that writes it *)

maxCacheItemSizeBytes == 2

CacheUrls == {"u1", "u2"}

(* HTTP statuses a response may carry *)
Statuses == {200, 204, 404, 500}

(* body sizes in bytes, up to one more than the limit *)
BodySizes == 0..(maxCacheItemSizeBytes + 1)

ResourceTypes == {"document", "script", "image"}

Methods == {"GET", "POST"}

(* the credentials and custom headers a process run carries: those of one *)
(* of two users                                                          *)
PageAuths == {"alice", "bob"}

NoEntry == [status |-> 0, size |-> 0, writer |-> "none", auth |-> ""]

(* resourceCache.set(url, ...); the status, the writer and the credentials the *)
(* response was fetched with are kept for the record                           *)
CacheSet(url, status, size, writer, auth) ==
    resourceCache' = [resourceCache EXCEPT ![url] =
                          [status |-> status, size |-> size, writer |-> writer,
                           auth |-> auth]]

(* resourceCache.get(url) found an entry: its body answers a request of a *)
(* page whose run carries auth                                           *)
CacheHit(url, auth) ==
    served' = <<[url |-> url, reader |-> auth, writer |-> resourceCache[url].auth]>>

(* the route handlers: response.status() >= 200 && < 300 && body.length > 0, *)
(* and Buffer.byteLength(body) <= maxCacheItemSizeBytes                       *)
RouteAdmits(status, size) ==
    /\ status >= 200
    /\ status < 300
    /\ size > 0
    /\ size <= maxCacheItemSizeBytes

(* what a route handler does with the cache for one intercepted request: a *)
(* GET of a cached URL is fulfilled from the cache, whatever the page      *)
RouteHandler(writer, auth, url, resourceType, method, failed, status, size) ==
    IF resourceType # "image" /\ method = "GET" /\ resourceCache[url] # NoEntry
      THEN CacheHit(url, auth) /\ UNCHANGED resourceCache
    ELSE IF /\ resourceType # "image"
            /\ method = "GET"
            /\ ~failed
            /\ RouteAdmits(status, size)
      THEN CacheSet(url, status, size, writer, auth) /\ UNCHANGED served
      ELSE UNCHANGED <<resourceCache, served>>

(* the handler setupCachingRouteInterception installs (frame pages) *)
InterceptRequest ==
    /\ \E auth \in PageAuths, url \in CacheUrls, resourceType \in ResourceTypes,
          method \in Methods, failed \in BOOLEAN, status \in Statuses, size \in BodySizes :
         RouteHandler("setupCachingRouteInterception", auth, url, resourceType, method,
                      failed, status, size)
    /\ UNCHANGED nonCacheVars

(* the handler process installs on the main page: the request of the page's *)
(* own URL is fulfilled with context.content, the others as above           *)
ProcessRouteRequest ==
    /\ \E auth \in PageAuths, url \in CacheUrls, isSource \in BOOLEAN,
          resourceType \in ResourceTypes, method \in Methods, failed \in BOOLEAN,
          status \in Statuses, size \in BodySizes :
         IF isSource THEN UNCHANGED <<resourceCache, served>>
         ELSE RouteHandler("process", auth, url, resourceType, method, failed, status, size)
    /\ UNCHANGED nonCacheVars

(* fetchFrameContent's own test: contentSizeBytes <= maxCacheItemSizeBytes *)
FrameAdmits(status, size) == size <= maxCacheItemSizeBytes

(* fetchFrameContent: a cached frame URL returns the cached body; on a miss *)
(* framePage.goto resolves with whatever status the server answers, $eval   *)
(* reads the body, the content is cached if it is small enough; a           *)
(* navigation that throws caches nothing                                    *)
FetchFrameContent ==
    /\ \E auth \in PageAuths, url \in CacheUrls, failed \in BOOLEAN, status \in Statuses,
          size \in BodySizes :
         IF resourceCache[url] # NoEntry
           THEN CacheHit(url, auth) /\ UNCHANGED resourceCache
         ELSE IF ~failed /\ FrameAdmits(status, size)
           THEN CacheSet(url, status, size, "fetchFrameContent", auth) /\ UNCHANGED served
           ELSE UNCHANGED <<resourceCache, served>>
    /\ UNCHANGED nonCacheVars

CacheIdle ==
    /\ resourceCache = [url \in CacheUrls |-> NoEntry]
    /\ served = <<>>

CacheNext ==
    \/ InterceptRequest
    \/ ProcessRouteRequest
    \/ FetchFrameContent
----------------------------------------------------------------------------
(* mergePlaywrightHeaders *)

(* header objects are functions from header names to values; a value is a *)
(* sequence of the parts of its text                                      *)
NoHeaders == [k \in {} |-> <<>>]

RequestHeaderArgs ==
    {[k \in {"accept"} |-> <<"*">>],
     [k \in {"accept", "authorization"} |->
        IF k = "accept" THEN <<"*">> ELSE <<"Bearer", "req">>]}

CustomHeaderArgs ==
    {NoHeaders,
     [k \in {"Authorization"} |-> <<"Bearer", "custom">>],
     [k \in {"authorization"} |-> <<"Bearer", "custom">>],
     [k \in {"x-custom"} |-> <<"1">>]}

(* credentials?: undefined, or the user name and password of the page URL *)
NoCredentials == <<>>
CredentialArgs == {NoCredentials, <<"user", "pw">>}

(* origin?: undefined, a URL origin, or the string "null" of an opaque origin *)
NoOrigin == ""
OriginArgs == {NoOrigin, "https://a", "https://b", "null"}

(* `Basic ${Buffer.from(`${username}:${password}`).toString("base64")}` *)
basicAuthorization(credentials) == <<"Basic", credentials[1], ":", credentials[2]>>

authorizationKey(key) == key \in {"authorization", "Authorization"}

(* for (const [key, value] of Object.entries(customHeaders)) { skip an *)
(* authorization key when headers.authorization is set; headers[key] = value } *)
withCustomHeaders(requestHeaders, customHeaders) ==
    LET taken == {key \in DOMAIN customHeaders :
                     ~(authorizationKey(key) /\ "authorization" \in DOMAIN requestHeaders)}
    IN [key \in DOMAIN requestHeaders \cup taken |->
          IF key \in taken THEN customHeaders[key] ELSE requestHeaders[key]]

(* the same-origin test left out *)
injectsAuthorization_AnyOrigin(headers, credentials, origin, reqOrigin) ==
    /\ credentials # NoCredentials
    /\ origin # NoOrigin
    /\ "authorization" \notin DOMAIN headers

(* credentials && origin && reqOrigin === origin && !headers.authorization *)
injectsAuthorization(headers, credentials, origin, reqOrigin) ==
    /\ credentials # NoCredentials
    /\ origin # NoOrigin
    /\ reqOrigin = origin
    /\ "authorization" \notin DOMAIN headers

mergePlaywrightHeaders(requestHeaders, customHeaders, credentials, origin, reqOrigin) ==
    LET headers == withCustomHeaders(requestHeaders, customHeaders)
    IN IF injectsAuthorization(headers, credentials, origin, reqOrigin)
         THEN [key \in DOMAIN headers \cup {"Authorization"} |->
                 IF key = "Authorization" THEN basicAuthorization(credentials)
                 ELSE headers[key]]
         ELSE headers

NotMerged == <<>>

MergeHeaders ==
    /\ mergedHeaders = NotMerged
    /\ mergedHeaders' = mergePlaywrightHeaders(mergeArgs.requestHeaders,
                            mergeArgs.customHeaders, mergeArgs.credentials,
                            mergeArgs.origin, mergeArgs.reqOrigin)
    /\ UNCHANGED mergeArgs
    /\ UNCHANGED nonHeaderVars

HeaderIdle ==
    /\ mergeArgs = [requestHeaders |-> NoHeaders, customHeaders |-> NoHeaders,
                    credentials |-> NoCredentials, origin |-> NoOrigin,
                    reqOrigin |-> NoOrigin]
    /\ mergedHeaders = NotMerged

HeaderInit ==
    /\ mergeArgs \in [requestHeaders : RequestHeaderArgs, customHeaders : CustomHeaderArgs,
                      credentials : CredentialArgs, origin : OriginArgs,
                      reqOrigin : OriginArgs]
    /\ mergedHeaders = NotMerged

HeaderNext == MergeHeaders

----------------------------------------------------------------------------
(* DocumentStore.addDocuments: embedding batches, and embedDocumentsWithRetry *)

MaxTexts == 3
MaxTextSize == 3
MaxBatchSize == 3
MaxBatchChars == 4

(* a text is the chunk it was built from and its length *)
TextsArgs ==
    UNION {{t \in [1..n -> [chunk : 1..n, size : 1..MaxTextSize]] :
               \A i \in 1..n : t[i].chunk = i} : n \in 1..MaxTexts}

RECURSIVE TotalChars(_)
TotalChars(batch) ==
    IF batch = <<>> THEN 0 ELSE Head(batch).size + TotalChars(Tail(batch))

(* adding this text would exceed the limit and the batch is not empty *)
ExceedsBatchChars(batch, size, text) ==
    size + text.size > embeddingBatchChars /\ Len(batch) > 0

(* the count limit reached only when the batch is above it *)
ReachedBatchSize_Above(batch) == Len(batch) > embeddingBatchSize

(* the count-based limit *)
ReachedBatchSize(batch) == Len(batch) >= embeddingBatchSize

(* a running embedDocumentsWithRetry call: the chunks its texts come from, *)
(* its texts, and where it is: waiting for the provider ("pending"), in    *)
(* the catch block with a size error, or waiting for its two halves        *)
Invocation(batch, state) ==
    [first |-> batch[1].chunk, last |-> batch[Len(batch)].chunk, texts |-> batch,
     state |-> state]

(* the provider's vectors for a batch, one per text, in the order of the texts; *)
(* a vector is modelled by the text it was computed from                        *)
embedDocuments(batch) == [i \in DOMAIN batch |-> batch[i]]

(* embedDocumentsWithRetry(currentBatch) calls embedDocuments with the batch *)
EmbedBatch(batch) ==
    /\ formed' = Append(formed, batch)
    /\ sent' = sent \cup {batch}
    /\ inFlight' = {Invocation(batch, "pending")}
    /\ UNCHANGED <<returned, embedded>>

(* the text is added to the batch, and the batch processed at the count limit *)
PushText(batch, size) ==
    LET text == texts[textIndex + 1]
        newBatch == Append(batch, text)
    IN /\ textIndex' = textIndex + 1
       /\ currentBatch' = newBatch
       /\ currentBatchSize' = size + text.size
       /\ IF ReachedBatchSize(newBatch)
            THEN EmbedBatch(newBatch) /\ bpc' = "awaitCount"
            ELSE bpc' = "loop" /\ UNCHANGED <<formed, sent, inFlight, returned, embedded>>

(* the awaited embedDocumentsWithRetry call has returned its vectors *)
BatchEmbedded == inFlight = {} /\ returned # {}

batchEmbeddings == (CHOOSE r \in returned : TRUE).vectors

(* the next text fits: no batch is processed before it is added *)
BatchTake ==
    /\ bpc = "loop"
    /\ textIndex < Len(texts)
    /\ ~ExceedsBatchChars(currentBatch, currentBatchSize, texts[textIndex + 1])
    /\ PushText(currentBatch, currentBatchSize)
    /\ UNCHANGED <<embeddingBatchSize, embeddingBatchChars, texts>>
    /\ UNCHANGED nonBatchVars

(* the next text does not fit: the current batch is processed first *)
BatchCharsFlush ==
    /\ bpc = "loop"
    /\ textIndex < Len(texts)
    /\ ExceedsBatchChars(currentBatch, currentBatchSize, texts[textIndex + 1])
    /\ EmbedBatch(currentBatch)
    /\ bpc' = "awaitChars"
    /\ UNCHANGED <<embeddingBatchSize, embeddingBatchChars, texts, textIndex,
                   currentBatch, currentBatchSize>>
    /\ UNCHANGED nonBatchVars

(* the batch is embedded: its vectors are pushed, the text starts a new batch, *)
(* and that batch is processed if it is at the count limit                     *)
BatchCharsFlushed ==
    /\ bpc = "awaitChars"
    /\ BatchEmbedded
    /\ LET text == texts[textIndex + 1]
       IN /\ textIndex' = textIndex + 1
          /\ currentBatch' = <<text>>
          /\ currentBatchSize' = text.size
          /\ embedded' = embedded \o batchEmbeddings
          /\ returned' = {}
          /\ IF ReachedBatchSize(<<text>>)
               THEN /\ formed' = Append(formed, <<text>>)
                    /\ sent' = sent \cup {<<text>>}
                    /\ inFlight' = {Invocation(<<text>>, "pending")}
                    /\ bpc' = "awaitCount"
               ELSE bpc' = "loop" /\ UNCHANGED <<formed, sent, inFlight>>
    /\ UNCHANGED <<embeddingBatchSize, embeddingBatchChars, texts>>
    /\ UNCHANGED nonBatchVars

(* the full batch is embedded: the next iteration starts with an empty batch *)
BatchCountFlushed ==
    /\ bpc = "awaitCount"
    /\ BatchEmbedded
    /\ embedded' = embedded \o batchEmbeddings
    /\ returned' = {}
    /\ currentBatch' = <<>>
    /\ currentBatchSize' = 0
    /\ bpc' = "loop"
    /\ UNCHANGED <<embeddingBatchSize, embeddingBatchChars, texts, textIndex, formed, sent,
                   inFlight>>
    /\ UNCHANGED nonBatchVars

(* after the loop: any remaining texts are the final batch *)
BatchFinal ==
    /\ bpc = "loop"
    /\ textIndex = Len(texts)
    /\ IF Len(currentBatch) > 0
         THEN EmbedBatch(currentBatch) /\ bpc' = "awaitFinal"
         ELSE bpc' = "done" /\ UNCHANGED <<formed, sent, inFlight, returned, embedded>>
    /\ UNCHANGED <<embeddingBatchSize, embeddingBatchChars, texts, textIndex,
                   currentBatch, currentBatchSize>>
    /\ UNCHANGED nonBatchVars

BatchFinalFlushed ==
    /\ bpc = "awaitFinal"
    /\ BatchEmbedded
    /\ embedded' = embedded \o batchEmbeddings
    /\ returned' = {}
    /\ bpc' = "done"
    /\ UNCHANGED <<embeddingBatchSize, embeddingBatchChars, texts, textIndex,
                   currentBatch, currentBatchSize, formed, sent, inFlight>>
    /\ UNCHANGED nonBatchVars

Awaiting == bpc \in {"awaitChars", "awaitCount", "awaitFinal"}

BatchUnchanged ==
    UNCHANGED <<embeddingBatchSize, embeddingBatchChars, texts, textIndex, currentBatch,
                currentBatchSize, formed, embedded>>

Pending == {c \in inFlight : c.state = "pending"}

(* embedDocuments resolves: the call returns the provider's vectors *)
EmbedResolves ==
    \E c \in Pending :
        /\ Awaiting
        /\ inFlight' = inFlight \ {c}
        /\ returned' = returned \cup
               {[first |-> c.first, last |-> c.last, vectors |-> embedDocuments(c.texts)]}
        /\ UNCHANGED <<bpc, sent>>
        /\ BatchUnchanged
        /\ UNCHANGED nonBatchVars

(* embedDocuments rejects with an error that isInputSizeError accepts *)
EmbedSizeError ==
    \E c \in Pending :
        /\ Awaiting
        /\ inFlight' = (inFlight \ {c}) \cup {[c EXCEPT !.state = "sizeError"]}
        /\ UNCHANGED <<bpc, sent, returned>>
        /\ BatchUnchanged
        /\ UNCHANGED nonBatchVars

(* a size error for several texts: both halves are embedded *)
EmbedSplitBatch ==
    \E c \in inFlight :
        LET midpoint == Len(c.texts) \div 2
            firstHalf == SubSeq(c.texts, 1, midpoint)
            secondHalf == SubSeq(c.texts, midpoint + 1, Len(c.texts))
        IN /\ Awaiting
           /\ c.state = "sizeError"
           /\ Len(c.texts) > 1
           /\ sent' = sent \cup {firstHalf, secondHalf}
           /\ inFlight' = (inFlight \ {c})
                  \cup {[c EXCEPT !.state = "halves"],
                        Invocation(firstHalf, "pending"), Invocation(secondHalf, "pending")}
           /\ UNCHANGED <<bpc, returned>>
           /\ BatchUnchanged
           /\ UNCHANGED nonBatchVars

(* the second half's vectors before the first half's *)
joinHalves_SecondFirst(firstEmbeddings, secondEmbeddings) == secondEmbeddings \o firstEmbeddings

(* [...firstEmbeddings, ...secondEmbeddings] *)
joinHalves(firstEmbeddings, secondEmbeddings) == firstEmbeddings \o secondEmbeddings

(* both halves have returned: the call returns their vectors *)
EmbedJoinHalves ==
    \E c \in inFlight : \E r1, r2 \in returned :
        /\ Awaiting
        /\ c.state = "halves"
        /\ r1.first = c.first
        /\ r2.last = c.last
        /\ r2.first = r1.last + 1
        /\ inFlight' = inFlight \ {c}
        /\ returned' = (returned \ {r1, r2}) \cup
               {[first |-> c.first, last |-> c.last,
                 vectors |-> joinHalves(r1.vectors, r2.vectors)]}
        /\ UNCHANGED <<bpc, sent>>
        /\ BatchUnchanged
        /\ UNCHANGED nonBatchVars

(* text.substring(0, Math.floor(text.length / 2)) *)
firstHalfOf(text) == [chunk |-> text.chunk, size |-> text.size \div 2]

(* a size error for a single text: its first half is embedded, and what that *)
(* call returns is returned                                                  *)
EmbedTruncateText ==
    \E c \in inFlight :
        /\ Awaiting
        /\ c.state = "sizeError"
        /\ Len(c.texts) = 1
        /\ sent' = sent \cup {<<firstHalfOf(c.texts[1])>>}
        /\ inFlight' = (inFlight \ {c})
               \cup {[c EXCEPT !.texts = <<firstHalfOf(c.texts[1])>>, !.state = "pending"]}
        /\ UNCHANGED <<bpc, returned>>
        /\ BatchUnchanged
        /\ UNCHANGED nonBatchVars

(* any other error is re-thrown: addDocuments rejects *)
EmbedThrows ==
    \E c \in Pending :
        /\ Awaiting
        /\ bpc' = "threw"
        /\ UNCHANGED <<sent, inFlight, returned>>
        /\ BatchUnchanged
        /\ UNCHANGED nonBatchVars

BatchLocals ==
    /\ textIndex = 0
    /\ currentBatch = <<>>
    /\ currentBatchSize = 0
    /\ formed = <<>>
    /\ sent = {}
    /\ inFlight = {}
    /\ returned = {}
    /\ embedded = <<>>

BatchIdle ==
    /\ embeddingBatchSize = 1
    /\ embeddingBatchChars = 1
    /\ texts = <<>>
    /\ bpc = "off"
    /\ BatchLocals

BatchInit ==
    /\ embeddingBatchSize \in 1..MaxBatchSize
    /\ embeddingBatchChars \in {2, MaxBatchChars}
    /\ texts \in TextsArgs
    /\ bpc = "loop"
    /\ BatchLocals

BatchNext ==
    \/ BatchTake
    \/ BatchCharsFlush
    \/ BatchCharsFlushed
    \/ BatchCountFlushed
    \/ BatchFinal
    \/ BatchFinalFlushed
    \/ EmbedResolves
    \/ EmbedSizeError
    \/ EmbedSplitBatch
    \/ EmbedJoinHalves
    \/ EmbedTruncateText
    \/ EmbedThrows

----------------------------------------------------------------------------
(* DocumentStore.findChildChunks *)

MaxPageRows == 3

ChunkPaths == {<<>>, <<"A">>, <<"A", "B">>, <<"A", "C">>}

(* the chunks of the reference chunk's page: the chunk with id i has        *)
(* sort_order i - 1 and the path paths[i]; id may be the id of no chunk     *)
ChildArgs ==
    [paths : UNION {[1..n -> ChunkPaths] : n \in 1..MaxPageRows},
     id : 1..(MaxPageRows + 1),
     limit : {1, 2}]

(* JSON.stringify of a path, and json_extract(d.metadata, '$.path'): ["A","B"] *)
jsonArray(path) ==
    <<"[">> \o join([i \in DOMAIN path |-> <<"\"", path[i], "\"">>], <<",">>) \o <<"]">>

(* text LIKE pattern || '%' for a pattern without wildcards *)
likePrefix(text, pattern) ==
    Len(pattern) <= Len(text) /\ SubSeq(text, 1, Len(pattern)) = pattern

RECURSIVE Ascending(_)
Ascending(ids) ==
    IF ids = {} THEN <<>>
    ELSE LET least == CHOOSE i \in ids : \A j \in ids : i <= j
         IN <<least>> \o Ascending(ids \ {least})

FirstRows(rows, n) == SubSeq(rows, 1, IF Len(rows) < n THEN Len(rows) ELSE n)

(* statements.getChildChunks.all: the ids of the rows, ORDER BY sort_order LIMIT ? *)
getChildChunks(paths, pathLength, pathJson, id, rowLimit) ==
    FirstRows(Ascending({i \in DOMAIN paths :
                            /\ Len(paths[i]) = pathLength
                            /\ likePrefix(jsonArray(paths[i]), pathJson)
                            /\ i - 1 > id - 1}),
              rowLimit)

findChildChunks(paths, id, rowLimit) ==
    IF id \notin DOMAIN paths THEN <<>>
    ELSE getChildChunks(paths, Len(paths[id]) + 1, jsonArray(paths[id]), id, rowLimit)

NotFound == <<0>>

FindChildChunks ==
    /\ childChunks = NotFound
    /\ childChunks' = findChildChunks(childArgs.paths, childArgs.id, childArgs.limit)
    /\ UNCHANGED childArgs
    /\ UNCHANGED nonChildVars

ChildIdle ==
    /\ childArgs = [paths |-> <<>>, id |-> 0, limit |-> 0]
    /\ childChunks = NotFound

ChildInit ==
    /\ childArgs \in ChildArgs
    /\ childChunks = NotFound

ChildNext == FindChildChunks


(***************************************************************************)
(* The route handler process() installs with page.route("**/*", ...).      *)
(* One intercepted request is followed from the handler's entry to the     *)
(* settlement of the promise it returns; every call on the route resolves  *)
(* or rejects in each way the browser can answer it.                       *)
(***************************************************************************)

(* context.source and one other URL *)
RouteUrls == {"source", "resource"}

RouteResourceTypes == {"image", "script"}

RouteMethods == {"GET", "POST"}

RouteRequests == [url : RouteUrls, resourceType : RouteResourceTypes, method : RouteMethods]

(* resource types the handler aborts: ["image", "font", "media"] *)
BlockedResourceTypes == {"image", "font", "media"}

(* values a rejected route call can carry: instanceOfError is false for a *)
(* thrown string                                                         *)
RouteErrors == [instanceOfError : BOOLEAN, message : {"Route is already handled!", "Page is closed"}]

(* messages for which message.includes("Route is already handled") is true *)
AlreadyHandledMessages == {"Route is already handled!"}

(* a route call resolves (<<>>) or rejects with an error (<<error>>) *)
RouteOutcomes == {<<>>} \cup {<<error>> : error \in RouteErrors}

isRouteAlreadyHandledError(error) ==
    IF error.instanceOfError THEN error.message \in AlreadyHandledMessages ELSE FALSE

RouteCall(action, outcome) == [action |-> action, outcome |-> outcome]

RoutePending == [state |-> "pending", error |-> <<>>]

RouteResolved == [state |-> "resolved", error |-> <<>>]

RouteRejected(error) == [state |-> "rejected", error |-> <<error>>]

(* try { return await route.<action>() } catch (error) { if already handled *)
(* return; throw error }                                                    *)
RouteSettle(outcome) ==
    IF outcome = <<>> THEN RouteResolved
    ELSE IF isRouteAlreadyHandledError(outcome[1]) THEN RouteResolved
    ELSE RouteRejected(outcome[1])

(* the handler up to its first call on the route *)
RouteHandle ==
    /\ routePc = "idle"
    /\ \E request \in RouteRequests, cached \in BOOLEAN :
        /\ routeRequest' = <<request>>
        /\ routeCache' = cached
        /\ routePc' = IF request.url = "source" THEN "fulfillInitial"
                      ELSE IF request.resourceType \in BlockedResourceTypes THEN "abort"
                      ELSE IF request.method = "GET"
                           THEN (IF cached THEN "fulfillCached" ELSE "fetch")
                      ELSE "continue"
    /\ UNCHANGED <<routeCalls, routeResult>>
    /\ UNCHANGED nonRouteVars

(* a call whose rejection is either swallowed or re-thrown out of the handler *)
RouteGuardedCall(at, action) ==
    /\ routePc = at
    /\ \E outcome \in RouteOutcomes :
        /\ routeCalls' = Append(routeCalls, RouteCall(action, outcome))
        /\ routeResult' = RouteSettle(outcome)
    /\ routePc' = "done"
    /\ UNCHANGED <<routeRequest, routeCache>>
    /\ UNCHANGED nonRouteVars

(* route.fulfill with context.content for the main page *)
RouteFulfillInitial == RouteGuardedCall("fulfillInitial", "fulfill")

(* route.abort() for image, font and media requests *)
RouteAbort == RouteGuardedCall("abort", "abort")

(* route.fulfill with the cached body *)
RouteFulfillCached == RouteGuardedCall("fulfillCached", "fulfill")

(* route.fetch and response.text() inside the outer try: every rejection is *)
(* caught by the outer catch; a cacheable response is stored               *)
RouteFetch ==
    /\ routePc = "fetch"
    /\ \E outcome \in RouteOutcomes, cacheable \in BOOLEAN :
        /\ routeCalls' = Append(routeCalls, RouteCall("fetch", outcome))
        /\ routePc' = IF outcome = <<>> THEN "fulfillResponse" ELSE "abortFailed"
        /\ routeCache' = IF outcome = <<>> /\ cacheable THEN TRUE ELSE routeCache
    /\ UNCHANGED <<routeRequest, routeResult>>
    /\ UNCHANGED nonRouteVars

(* route.fulfill({ response }) in the inner try, itself inside the outer try: *)
(* the inner catch returns on an already handled route and re-throws the      *)
(* rest, and what it re-throws is caught by the outer catch                  *)
RouteFulfillResponse ==
    /\ routePc = "fulfillResponse"
    /\ \E outcome \in RouteOutcomes :
        /\ routeCalls' = Append(routeCalls, RouteCall("fulfill", outcome))
        /\ IF RouteSettle(outcome).state = "resolved"
           THEN routeResult' = RouteResolved /\ routePc' = "done"
           ELSE routeResult' = routeResult /\ routePc' = "abortFailed"
    /\ UNCHANGED <<routeRequest, routeCache>>
    /\ UNCHANGED nonRouteVars

(* route.continue({ headers }): returns on an already handled route, aborts *)
(* the route on any other error                                            *)
RouteContinue ==
    /\ routePc = "continue"
    /\ \E outcome \in RouteOutcomes :
        /\ routeCalls' = Append(routeCalls, RouteCall("continue", outcome))
        /\ IF RouteSettle(outcome).state = "resolved"
           THEN routeResult' = RouteResolved /\ routePc' = "done"
           ELSE routeResult' = routeResult /\ routePc' = "abortFailed"
    /\ UNCHANGED <<routeRequest, routeCache>>
    /\ UNCHANGED nonRouteVars

(* route.abort("failed") in the catch after fetch, fulfill or continue *)
RouteAbortFailed == RouteGuardedCall("abortFailed", "abort")

RouteIdle ==
    /\ routeRequest = <<>>
    /\ routeCache = FALSE
    /\ routePc = "idle"
    /\ routeCalls = <<>>
    /\ routeResult = RoutePending

RouteInit == RouteIdle

RouteNext ==
    \/ RouteHandle
    \/ RouteFulfillInitial
    \/ RouteAbort
    \/ RouteFulfillCached
    \/ RouteFetch
    \/ RouteFulfillResponse
    \/ RouteContinue
    \/ RouteAbortFailed

RestIdle == BrowserIdle /\ CacheIdle /\ HeaderIdle /\ BatchIdle /\ ChildIdle /\ RouteIdle

----------------------------------------------------------------------------
StoreInit ==
    /\ libraries = {}
    /\ versions = {}
    /\ pages = {}
    /\ documents = {}
    /\ pc = "idle"
    /\ call = NoCall
    /\ pre = NoSnapshot
    /\ ret = NoRet
    /\ repeat = FALSE

SplitIdle ==
    /\ splitter = [baseSplitter |-> "none", min |-> 0, preferred |-> 0, max |-> 0]
    /\ spc = "off"
    /\ consumed = <<>>
    /\ currentChunk = NoChunk
    /\ concatenatedChunks = <<>>
    /\ cuts = <<>>

EmbedIdle == ConfigFtsOnly /\ VecIdle /\ SearchIdle

Init == StoreInit /\ SplitIdle /\ FtsIdle /\ EmbedIdle /\ PlayIdle /\ RestIdle

Next ==
    \/ CallResolveVersionId
    \/ CallAddDocuments(UrlArgs, ChunkLists)
    \/ RepeatAddDocuments
    \/ ResolveInsertLibrary
    \/ ResolveInsertVersion
    \/ AddDeleteExisting
    \/ AddTransaction
    \/ CallDeletePages
    \/ DeletePagesDocuments
    \/ DeletePagesPages
    \/ CallDeletePage
    \/ DeletePageDocuments
    \/ DeletePagePage
    \/ CallRemoveVersion
    \/ RemoveGetVersionId
    \/ RemoveDeletePagesAgain
    \/ RemoveDeleteVersion
    \/ RemoveDeleteLibrary
    \/ Throw
    \/ Return

Spec == Init /\ [][Next]_vars

(* The version rows and their attributes: the calls that create, update and *)
(* remove versions, with addDocuments reduced to one page of one chunk.     *)
NextVersions ==
    \/ CallResolveVersionId
    \/ CallAddDocuments({"u1"}, {<<ChunkX>>})
    \/ ResolveInsertLibrary
    \/ ResolveInsertVersion
    \/ AddDeleteExisting
    \/ AddTransaction
    \/ CallRemoveVersion
    \/ RemoveGetVersionId
    \/ DeletePagesDocuments
    \/ DeletePagesPages
    \/ RemoveDeletePagesAgain
    \/ RemoveDeleteVersion
    \/ RemoveDeleteLibrary
    \/ UpdateVersionStatus
    \/ UpdateVersionProgress
    \/ StoreScraperOptions
    \/ Throw
    \/ Return

VersionSpec == Init /\ [][NextVersions]_vars

(* GreedySplitter.splitText run over every output of the base splitter *)
SplitStart == StoreInit /\ SplitInit /\ FtsIdle /\ EmbedIdle /\ PlayIdle /\ RestIdle

(* splitText entry with the default sizes over document-sized chunks *)
LongSplitStart ==
    /\ StoreInit
    /\ FtsIdle
    /\ EmbedIdle
    /\ PlayIdle
    /\ RestIdle
    /\ splitter \in LongArgs
    /\ spc = "loop"
    /\ consumed = <<>>
    /\ currentChunk = NoChunk
    /\ concatenatedChunks = <<>>
    /\ cuts = <<>>

SplitSpec == SplitStart /\ [][SplitNext]_vars

(* GreedySplitter.splitText with the default sizes *)
LongSplitSpec == LongSplitStart /\ [][SplitNext]_vars

FtsStart == StoreInit /\ SplitIdle /\ FtsInit /\ EmbedIdle /\ PlayIdle /\ RestIdle

(* DocumentStore.escapeFtsQuery run over every query *)
FtsSpec == FtsStart /\ [][FtsNext]_vars

(* an initialized store, with or without vector search, and what its indexes *)
(* hold for a query                                                          *)
SearchStart ==
    /\ StoreInit
    /\ SplitIdle
    /\ FtsIdle
    /\ VecIdle
    /\ PlayIdle
    /\ RestIdle
    /\ initialized = "ok"
    /\ credentialsAvailable = TRUE
    /\ isVectorSearchEnabled \in BOOLEAN
    /\ embeddingConfig = IF isVectorSearchEnabled
                           THEN [provider |-> "openai", dimensions |-> Defined(dbDimension)]
                           ELSE NoEmbeddingConfig
    /\ modelDimension = IF isVectorSearchEnabled THEN dbDimension ELSE 0
    /\ searchWeightVec \in WeightArgs
    /\ searchWeightFts \in WeightArgs
    /\ matches \in MatchSets
    /\ isVectorSearchEnabled \/ \A m \in matches : m.vec_distance = Undefined
    /\ fpc = "idle"
    /\ limit = 0
    /\ queryVector = <<>>
    /\ rawResults = <<>>
    /\ rankedResults = <<>>
    /\ results = <<>>

SearchNext ==
    \/ CallFindByContent
    \/ FindEmbedQuery
    \/ FindHybridSelect
    \/ FindRank
    \/ FindFts
    \/ FindThrows
    \/ FindReturn

(* DocumentStore.findByContent over every content of the indexes *)
SearchSpec == SearchStart /\ [][SearchNext]_vars

(* what the full-text index holds for the query of the searches below *)
VectorMatches ==
    {[id |-> 1, types |-> <<"text">>, vec_distance |-> Undefined, bm25 |-> Defined(0 - 2)],
     [id |-> 2, types |-> <<"text">>, vec_distance |-> Undefined, bm25 |-> Defined(0 - 1)]}

(* a constructed store before initialize(), for every embedding configuration *)
VectorStart ==
    /\ StoreInit
    /\ SplitIdle
    /\ FtsIdle
    /\ VecIdle
    /\ PlayIdle
    /\ RestIdle
    /\ initialized = "new"
    /\ embeddingConfig \in EmbeddingConfigs
    /\ credentialsAvailable \in BOOLEAN
    /\ isVectorSearchEnabled = FALSE
    /\ modelDimension = 0
    /\ searchWeightVec = 1
    /\ searchWeightFts = 1
    /\ matches = VectorMatches
    /\ fpc = "idle"
    /\ limit = 0
    /\ queryVector = <<>>
    /\ rawResults = <<>>
    /\ rankedResults = <<>>
    /\ results = <<>>

VectorNext ==
    \/ InitializeSkipped
    \/ InitializeKnownDimension
    \/ InitializeDetectDimension
    \/ InitializeThrows
    \/ CallAddDocuments({"u1"}, {<<ChunkX>>, <<ChunkX, ChunkY>>})
    \/ AddEmbed
    \/ ResolveInsertLibrary
    \/ ResolveInsertVersion
    \/ AddDeleteExisting
    \/ AddTransaction
    \/ Throw
    \/ Return
    \/ CallFindByContent
    \/ FindEmbedQuery
    \/ FindHybridSelect
    \/ FindRank
    \/ FindFts
    \/ FindThrows
    \/ FindReturn

PlayStart == StoreInit /\ SplitIdle /\ FtsIdle /\ EmbedIdle /\ PlayInit /\ RestIdle

(* one call of HtmlPlaywrightMiddleware.process, for every input and every *)
(* step that may fail                                                      *)
PlaySpec == PlayStart /\ [][PlayNext]_vars

BrowserStart ==
    /\ StoreInit /\ SplitIdle /\ FtsIdle /\ EmbedIdle /\ PlayIdle
    /\ BrowserInit /\ CacheIdle /\ HeaderIdle /\ BatchIdle /\ ChildIdle /\ RouteIdle

CacheStart ==
    /\ StoreInit /\ SplitIdle /\ FtsIdle /\ EmbedIdle /\ PlayIdle
    /\ BrowserIdle /\ CacheIdle /\ HeaderIdle /\ BatchIdle /\ ChildIdle /\ RouteIdle

(* requests intercepted on pages and frame pages, and frames fetched, for *)
(* every response the server may give                                     *)
CacheSpec == CacheStart /\ [][CacheNext]_vars

(* concurrent process calls asking for the browser, browsers disconnecting, *)
(* and closeBrowser                                                          *)
BrowserSpec == BrowserStart /\ [][BrowserNext]_vars

HeaderStart ==
    /\ StoreInit /\ SplitIdle /\ FtsIdle /\ EmbedIdle /\ PlayIdle
    /\ BrowserIdle /\ CacheIdle /\ HeaderInit /\ BatchIdle /\ ChildIdle /\ RouteIdle

(* mergePlaywrightHeaders applied to every combination of its arguments *)
HeaderSpec == HeaderStart /\ [][HeaderNext]_vars

BatchStart ==
    /\ StoreInit /\ SplitIdle /\ FtsIdle /\ EmbedIdle /\ PlayIdle
    /\ BrowserIdle /\ CacheIdle /\ HeaderIdle /\ BatchInit /\ ChildIdle /\ RouteIdle

(* the batching loop of addDocuments over every list of texts, the provider *)
(* answering every batch in each way it can                                 *)
BatchSpec == BatchStart /\ [][BatchNext]_vars

(* the same, with every enabled step eventually taken: the provider answers *)
(* every call and every continuation runs                                   *)
BatchLiveSpec == BatchStart /\ [][BatchNext]_vars /\ WF_vars(BatchNext)

ChildStart ==
    /\ StoreInit /\ SplitIdle /\ FtsIdle /\ EmbedIdle /\ PlayIdle
    /\ BrowserIdle /\ CacheIdle /\ HeaderIdle /\ BatchIdle /\ ChildInit /\ RouteIdle

(* findChildChunks called for every page of up to three chunks, every id and limit *)
ChildSpec == ChildStart /\ [][ChildNext]_vars


RouteStart ==
    /\ StoreInit /\ SplitIdle /\ FtsIdle /\ EmbedIdle /\ PlayIdle
    /\ BrowserIdle /\ CacheIdle /\ HeaderIdle /\ BatchIdle /\ ChildIdle /\ RouteInit

(* the route handler of process() run on every kind of request, each call *)
(* on the route answered in every way                                     *)
RouteSpec == RouteStart /\ [][RouteNext]_vars

(* initialize(), then addDocuments and findByContent calls, with and without *)
(* an embedding model                                                       *)
VectorSpec == VectorStart /\ [][VectorNext]_vars

----------------------------------------------------------------------------
(* Properties of the store *)

(* what a reader sees of a chunk row *)
ChunkView(rows) ==
    [i \in DOMAIN rows |-> [content |-> rows[i].content,
                            metadata |-> rows[i].metadata,
                            sort_order |-> rows[i].sort_order]]

(* the rows a scrape result's chunks are to be stored as *)
ExpectedView(chunks) ==
    [i \in DOMAIN chunks |->
        [content |-> chunks[i].content,
         metadata |-> [types |-> chunks[i].types,
                       level |-> chunks[i].section.level,
                       path |-> chunks[i].section.path],
         sort_order |-> i - 1]]

Contents(rows) == [i \in DOMAIN rows |-> rows[i].content]

(* the chunks of the called page, now and when the call started *)
StoredChunks == findChunksByUrl(call.library, call.version, call.url)
PriorChunks ==
    OrderBySortOrder(ChunkRowsOf(pre.documents, pre.pages, pre.versions, pre.libraries,
                                 toLowerCase(call.library), toLowerCase(call.version),
                                 call.url))

AddReturned == pc = "done" /\ call.kind = "addDocuments" /\ ret.outcome = "ok"
AddEnded == pc = "done" /\ call.kind = "addDocuments"

(* C1: when a re-ingest of a page has ended, normally or because a statement *)
(* threw, the page holds exactly the chunks it held before the call or       *)
(* exactly the chunks of the new scrape result.                              *)
C1_ReplaceIsAtomic ==
    AddEnded =>
        \/ ChunkView(StoredChunks) = ChunkView(PriorChunks)
        \/ ChunkView(StoredChunks) = ExpectedView(call.chunks)

DocsOfPage(docs, pageId) == {d \in docs : d.page_id = pageId}

(* C2: in every state, every page's chunks carry the sort_order values       *)
(* 0..n-1, each once, n being the number of chunks stored for the page.      *)
C2_SortOrderDense ==
    \A pid \in {p.id : p \in pages} \cup {d.page_id : d \in documents} :
        LET ds == DocsOfPage(documents, pid)
        IN /\ {d.sort_order : d \in ds} = 0..(Cardinality(ds) - 1)
           /\ \A d1, d2 \in ds : d1.sort_order = d2.sort_order => d1 = d2

(* a page re-ingested over earlier chunks now holds two chunks *)
C2_Witness ==
    /\ AddReturned
    /\ PriorChunks # <<>>
    /\ Len(StoredChunks) = 2

(* C3: in every state, between the statements of a call as well, every chunk *)
(* refers to a page row, every page to a version row and every version to a  *)
(* library row.                                                              *)
C3_ReferentialIntegrity ==
    /\ \A d \in documents : \E p \in pages : p.id = d.page_id
    /\ \A p \in pages : \E v \in versions : v.id = p.version_id
    /\ \A v \in versions : \E l \in libraries : l.id = v.library_id

(* between two delete statements of a call that has deleted chunks *)
C3_Witness ==
    /\ \/ call.kind = "removeVersion" /\ pc \in {"deletePages", "deleteVersion", "deleteLibrary"}
       \/ call.kind = "deletePage" /\ pc = "deletePage"
       \/ call.kind = "deletePages" /\ pc = "deletePages"
    /\ Cardinality(documents) < Cardinality(pre.documents)
    /\ documents # {}

DocView(docs) ==
    {[page_id |-> d.page_id, content |-> d.content, metadata |-> d.metadata,
      sort_order |-> d.sort_order] : d \in docs}

(* C5: when addDocuments is called again with the arguments of the call that *)
(* just returned, the page rows are the same rows and the chunks have the    *)
(* same bodies, metadata, count and sort_order as after the first call.      *)
C5_IdempotentIngest ==
    (AddReturned /\ repeat) =>
        /\ pages = pre.pages
        /\ DocView(documents) = DocView(pre.documents)
        /\ Cardinality(documents) = Cardinality(pre.documents)
        /\ ChunkView(StoredChunks) = ChunkView(PriorChunks)

(* the second of two identical calls has stored two chunks *)
C5_Witness ==
    /\ AddReturned
    /\ repeat
    /\ Len(call.chunks) = 2
    /\ Len(StoredChunks) = 2

RemoveReturned == pc = "done" /\ call.kind = "removeVersion" /\ ret.outcome = "ok"

(* rows of the version a removeVersion call names, in a given store *)
TargetVersionIds(t) ==
    VersionIdsOf(t.versions, t.libraries,
                 toLowerCase(call.library), toLowerCase(call.version))
TargetPageIds(t) == {p.id : p \in {q \in t.pages : q.version_id \in TargetVersionIds(t)}}
TargetDocs(t) == {d \in t.documents : d.page_id \in TargetPageIds(t)}

(* C6: after removeVersion returns, no chunk, page or version row of the     *)
(* named version is left and checkDocumentExists is false; the rows of every *)
(* other version are as before; documentsDeleted is the number of chunks the *)
(* version held (0, with versionDeleted false, if it did not exist).         *)
C6_RemoveVersionEffect ==
    RemoveReturned =>
        /\ versions = {v \in pre.versions : v.id \notin TargetVersionIds(pre)}
        /\ pages = {p \in pre.pages : p.id \notin TargetPageIds(pre)}
        /\ documents = pre.documents \ TargetDocs(pre)
        /\ TargetVersionIds(Snapshot) = {}
        /\ ~checkDocumentExists(call.library, call.version)
        /\ ret.documentsDeleted = Cardinality(TargetDocs(pre))
        /\ ret.versionDeleted = (TargetVersionIds(pre) # {})
        /\ TargetVersionIds(pre) = {} => ret.documentsDeleted = 0

(* a version with chunks was removed while another version keeps its chunks *)
C6_Witness ==
    /\ RemoveReturned
    /\ ret.documentsDeleted > 0
    /\ ret.versionDeleted
    /\ documents # {}

LibraryRowOf(libs) == {l \in libs : l.name = toLowerCase(call.library)}

LibraryRemovedByCall == LibraryRowOf(pre.libraries) # {} /\ LibraryRowOf(libraries) = {}

NoVersionsRemain ==
    \A l \in LibraryRowOf(pre.libraries) : \A v \in versions : v.library_id # l.id

(* C7 as stated: removeVersion removes the (existing) library row exactly    *)
(* when no version of the library remains after the call and the caller      *)
(* asked for it, and libraryDeleted says so.                                 *)
C7_LibraryRemovedIffEmpty ==
    (RemoveReturned /\ LibraryRowOf(pre.libraries) # {}) =>
        /\ LibraryRemovedByCall <=> (NoVersionsRemain /\ call.flag)
        /\ ret.libraryDeleted <=> LibraryRemovedByCall

(* C7, amended: removeVersion removes the library row exactly when the call  *)
(* deleted the version row, no version of the library remains after it and   *)
(* the caller asked for it; libraryDeleted says so.                          *)
C7_LibraryRemovedIffLastVersionRemoved ==
    (RemoveReturned /\ LibraryRowOf(pre.libraries) # {}) =>
        /\ LibraryRemovedByCall <=>
              (ret.versionDeleted /\ NoVersionsRemain /\ call.flag)
        /\ ret.libraryDeleted <=> LibraryRemovedByCall

(* the last version went, the caller did not ask for the library to go *)
C7_Witness ==
    /\ RemoveReturned
    /\ ret.versionDeleted
    /\ NoVersionsRemain
    /\ ~call.flag
    /\ ~ret.libraryDeleted
    /\ LibraryRowOf(libraries) # {}

ResolveReturned == pc = "done" /\ call.kind = "resolveVersionId" /\ ret.outcome = "ok"

(* C8: (library, version) and library names are unique in every state; when  *)
(* resolveVersionId returns, its id is that of the row named by the          *)
(* lower-cased arguments; a version that did not exist is created with       *)
(* status not_indexed, no progress, no options; for one that existed the id is the    *)
(* old one and no version row has changed.                                   *)
C8_ResolveInsertOrGet ==
    /\ \A v1, v2 \in versions :
          (v1.library_id = v2.library_id /\ v1.name = v2.name) => v1 = v2
    /\ \A l1, l2 \in libraries : l1.name = l2.name => l1 = l2
    /\ ResolveReturned =>
          /\ TargetVersionIds(Snapshot) = {ret.id}
          /\ IF TargetVersionIds(pre) = {}
               THEN \A v \in versions : v.id = ret.id =>
                       /\ v.status = "not_indexed"
                       /\ v.progress_pages = 0
                       /\ v.scraper_options = NULL
               ELSE TargetVersionIds(pre) = {ret.id} /\ versions = pre.versions

(* an upper-case spelling resolved to a version whose status had changed *)
C8_Witness ==
    /\ ResolveReturned
    /\ call.library = <<"A">>
    /\ call.version = <<"V">>
    /\ \E v \in pre.versions : v.id = ret.id /\ v.status = "completed"

----------------------------------------------------------------------------
(* Properties of GreedySplitter *)

(* C9: every chunk body splitText emits is at most maxChunkSize long. *)
C9_BodiesWithinMax ==
    \A i \in DOMAIN concatenatedChunks :
        Len(concatenatedChunks[i].content) <= splitter.max

(* C10: two adjacent output chunks are never both shorter than minChunkSize *)
(* unless the split between them was made by the hard limit or at a major  *)
(* section boundary.                                                       *)
C10_NoAdjacentSmallChunks ==
    \A i \in DOMAIN concatenatedChunks :
        (/\ i < Len(concatenatedChunks)
         /\ Len(concatenatedChunks[i].content) < splitter.min
         /\ Len(concatenatedChunks[i + 1].content) < splitter.min)
        => cuts[i] \in {"hard", "major"}

(* returned: two adjacent small chunks cut by the hard limit, after a merge *)
C10_Witness ==
    /\ spc = "returned"
    /\ Len(concatenatedChunks) = 2
    /\ Len(concatenatedChunks[1].content) < splitter.min
    /\ Len(concatenatedChunks[2].content) < splitter.min
    /\ cuts[1] = "hard"
    /\ Len(consumed) = 3

(* the body sizes of a chunk sequence *)
Sizes(chunks) == [i \in DOMAIN chunks |-> Len(chunks[i].content)]

(* five chunks of 200, 300, 900, 1600, 200 characters under one H1, default sizes *)
FiveUnderOneH1 ==
    /\ spc = "returned"
    /\ splitter.max = 5000
    /\ consumed = <<UnderA(200), UnderA(300), UnderA(900), UnderA(1600), UnderA(200)>>

(* C11 as stated: the five chunks of 200, 300, 900, 1600, 200 characters *)
(* come out as three chunks of 500, 900 and 1800 characters.             *)
C11_ThreeChunks == FiveUnderOneH1 => Sizes(concatenatedChunks) = <<500, 900, 1800>>

(* C11: the five chunks of 200, 300, 900, 1600, 200 characters come out as  *)
(* two chunks: 200+300+900 merged (1402 characters with the two newline     *)
(* separators, not above the preferred size) and 1600+200 merged (1801).    *)
C11_TwoChunks ==
    FiveUnderOneH1 =>
        /\ Sizes(concatenatedChunks) = <<1402, 1801>>
        /\ concatenatedChunks[1].content =
               Body(200, FALSE) \o <<"\n">> \o Body(300, FALSE) \o <<"\n">> \o Body(900, FALSE)
        /\ concatenatedChunks[2].content = Body(1600, FALSE) \o <<"\n">> \o Body(200, FALSE)
        /\ cuts = <<"preferred", "end">>

C11_Witness == FiveUnderOneH1 /\ Len(concatenatedChunks) = 2

----------------------------------------------------------------------------
(* Properties of escapeFtsQuery *)

FtsReturned == ftsQuery # NULL

(* Reading a double-quoted string that starts at position i of s: the position *)
(* after its closing quote, 0 if s has no such string at i. Inside the string  *)
(* two quotes in a row stand for one quote.                                    *)
RECURSIVE StringBody(_, _)
StringBody(s, j) ==
    IF j > Len(s) THEN 0
    ELSE IF s[j] # "\"" THEN StringBody(s, j + 1)
    ELSE IF j < Len(s) /\ s[j + 1] = "\"" THEN StringBody(s, j + 2)
    ELSE j + 1

QuotedStringEnd(s, i) ==
    IF i > Len(s) \/ s[i] # "\"" THEN 0 ELSE StringBody(s, i + 1)

(* s from position i on is: quoted string, then any number of ` OR ` quoted string *)
RECURSIVE QuotedStringsJoinedByOr(_, _)
QuotedStringsJoinedByOr(s, i) ==
    LET k == QuotedStringEnd(s, i)
    IN IF k = 0 THEN FALSE
       ELSE IF k = Len(s) + 1 THEN TRUE
       ELSE /\ k + 3 <= Len(s)
            /\ <<s[k], s[k + 1], s[k + 2], s[k + 3]>> = <<" ", "O", "R", " ">>
            /\ QuotedStringsJoinedByOr(s, k + 4)

Parenthesised(s) == <<"(">> \o s \o <<")">>

(* C13: a multi-token query is emitted as ("<tokens joined by spaces>") OR *)
(* ("t1" OR ... OR "tn"), both parts parenthesised; for the input          *)
(* foo "bar baz" qux"unbalanced that is ("foo bar baz qux unbalanced") OR  *)
(* ("foo" OR "bar baz" OR "qux" OR "unbalanced").                          *)
C13_ParenthesisedShape ==
    (FtsReturned /\ Len(tokens) > 1) =>
        ftsQuery = Parenthesised(exactMatch(tokens)) \o <<" ", "O", "R", " ">>
                       \o Parenthesised(termsQuery(tokens))

----------------------------------------------------------------------------
(* Properties of findByContent *)

MaxWeight == 4

ResultIds == {results[i].id : i \in DOMAIN results}

PurelyStructural(types) == \A i \in DOMAIN types : types[i] = "structural"

(* the chunk is retrieved by an index the search path consults *)
Retrieved(m) == m.bm25 # Undefined \/ (isVectorSearchEnabled /\ m.vec_distance # Undefined)

RetrievedCount == Cardinality({m \in matches : Retrieved(m)})

(* C14 as stated: when findByContent has returned, by either path, with a  *)
(* limit that cuts nothing off, a retrieved chunk is missing from the       *)
(* results exactly when all its types are structural; a chunk with a        *)
(* content type and the structural type is returned.                        *)
C14_ExcludedIffPurelyStructural ==
    (fpc = "done" /\ RetrievedCount <= limit) =>
        \A m \in matches : Retrieved(m) => (m.id \notin ResultIds <=> PurelyStructural(m.types))

MatchOf(id) == CHOOSE m \in matches : m.id = id

(* the score of the claim: terms only of the indexes that retrieved the chunk *)
ScoreOverRetrieved(r) ==
    RRF(IF MatchOf(r.id).vec_distance # Undefined THEN r.vec_rank ELSE Undefined,
        IF MatchOf(r.id).bm25 # Undefined THEN r.fts_rank ELSE Undefined,
        kDefault, searchWeightVec, searchWeightFts)

Smaller(a, b) == IF a < b THEN a ELSE b

(* C15 as stated: when the hybrid path has returned, each result's score is *)
(* the sum of weight/(60 + rank) over the indexes that retrieved it, the    *)
(* ranks of each index are 1..m, and the results are the limit highest      *)
(* scoring candidates in descending order of score.                         *)
C15_ScoreOverRetrievedIndexes ==
    (fpc = "done" /\ isVectorSearchEnabled) =>
        /\ \A i \in DOMAIN results : FracEq(results[i].score, ScoreOverRetrieved(results[i]))
        /\ {rankedResults[p].vec_rank[1] : p \in DOMAIN rankedResults} = 1..Len(rankedResults)
        /\ {rankedResults[p].fts_rank[1] : p \in DOMAIN rankedResults} = 1..Len(rankedResults)
        /\ Len(results) = Smaller(limit, Len(rankedResults))
        /\ \A i, j \in DOMAIN results : i < j => ~FracLess(results[i].score, results[j].score)
        /\ \A p \in DOMAIN rankedResults :
             rankedResults[p].id \notin ResultIds =>
                 \A i \in DOMAIN results : ~FracLess(results[i].score, rankedResults[p].rrf_score)

(* C16 as stated: when the hybrid path has returned, two results of equal   *)
(* score come in ascending order of chunk id, whatever order the rows came  *)
(* in.                                                                      *)
C16_TiesByAscendingId ==
    (fpc = "done" /\ isVectorSearchEnabled) =>
        \A i, j \in DOMAIN results :
            (i < j /\ FracEq(results[i].score, results[j].score)) => results[i].id < results[j].id

BetterRank(a, b) == a # Undefined /\ (b = Undefined \/ a[1] < b[1])

(* the score of a ranked candidate under other weights *)
ScoreUnder(row, weightVec, weightFts) ==
    RRF(row.vec_rank, row.fts_rank, kDefault, weightVec, weightFts)

(* C17: for two candidates A and B of a hybrid search, if A has the better  *)
(* vector rank and scores at least as high as B, then A still scores at     *)
(* least as high as B under every larger vector weight, the other weight    *)
(* unchanged.                                                               *)
C17_MonotoneInVectorWeight ==
    \A a, b \in DOMAIN rankedResults :
        (/\ BetterRank(rankedResults[a].vec_rank, rankedResults[b].vec_rank)
         /\ ~FracLess(rankedResults[a].rrf_score, rankedResults[b].rrf_score)) =>
            \A larger \in (searchWeightVec + 1)..MaxWeight :
                ~FracLess(ScoreUnder(rankedResults[a], larger, searchWeightFts),
                          ScoreUnder(rankedResults[b], larger, searchWeightFts))

(* returned by the hybrid path: A has the better vector rank, B the better  *)
(* full-text rank, and A scores at least as high                            *)
C17_Witness ==
    /\ fpc = "done"
    /\ isVectorSearchEnabled
    /\ \E a, b \in DOMAIN rankedResults :
         /\ BetterRank(rankedResults[a].vec_rank, rankedResults[b].vec_rank)
         /\ BetterRank(rankedResults[b].fts_rank, rankedResults[a].fts_rank)
         /\ ~FracLess(rankedResults[a].rrf_score, rankedResults[b].rrf_score)
         /\ searchWeightVec < MaxWeight

----------------------------------------------------------------------------
(* Properties of the embeddings *)

Zeros(n) == [i \in 1..n |-> 0]

AddInProgress == call.kind = "addDocuments" /\ isVectorSearchEnabled

(* C18: every vector written to the store and every query vector has        *)
(* exactly dbDimension components; a provider vector of d <= dbDimension    *)
(* components is stored as itself followed by dbDimension - d zeros; when   *)
(* the provider returned a longer vector the call has thrown and has        *)
(* written no chunk and no vector.                                          *)
C18_VectorsHaveDbDimension ==
    /\ \A e \in embeddingsWritten : Len(e.embedding) = dbDimension
    /\ queryVector # <<>> => Len(queryVector) = dbDimension
    /\ (AddInProgress /\ pc \in {"insertLibrary", "insertVersion", "deleteExisting", "transaction"}) =>
           /\ Len(paddedEmbeddings) = Len(call.chunks)
           /\ \A i \in DOMAIN rawEmbeddings :
                /\ Len(rawEmbeddings[i]) <= dbDimension
                /\ paddedEmbeddings[i] =
                       rawEmbeddings[i] \o Zeros(dbDimension - Len(rawEmbeddings[i]))
    /\ (AddInProgress /\ pc = "done" /\ ret.outcome = "ok") =>
           \A d \in documents \ pre.documents :
               \E e \in embeddingsWritten :
                   /\ e.rowid = d.id
                   /\ e.embedding = paddedEmbeddings[d.sort_order + 1]
    /\ (AddInProgress /\ pc = "done"
            /\ \E i \in DOMAIN rawEmbeddings : Len(rawEmbeddings[i]) > dbDimension) =>
           /\ ret.outcome = "thrown"
           /\ embeddingsWritten = pre.embeddings
           /\ documents = pre.documents

(* a one-component provider vector was stored with a zero appended, and a *)
(* later call was rejected for a vector of dbDimension + 1 components     *)
C18_Witness ==
    /\ AddInProgress
    /\ pc = "done"
    /\ ret.outcome = "thrown"
    /\ \E i \in DOMAIN rawEmbeddings : Len(rawEmbeddings[i]) > dbDimension
    /\ \E e \in embeddingsWritten : e.embedding = <<1>> \o Zeros(dbDimension - 1)

NoModelOrNoCredentials == embeddingConfig = NoEmbeddingConfig \/ ~credentialsAvailable

(* C19: a store constructed without an embedding model, or without the      *)
(* provider's credentials, initializes successfully with vector search      *)
(* disabled; from then on the embedding provider is never called, no vector *)
(* is written, findByContent takes the full-text path only and              *)
(* getActiveEmbeddingConfig returns null.                                   *)
C19_FullTextOnlyWithoutModel ==
    (NoModelOrNoCredentials /\ initialized # "new") =>
        /\ initialized = "ok"
        /\ ~isVectorSearchEnabled
        /\ ~embeddingsCalled
        /\ rawEmbeddings = <<>>
        /\ embeddingsWritten = {}
        /\ pc # "embed"
        /\ fpc \notin {"embedQuery", "hybrid", "rank"}
        /\ queryVector = <<>>
        /\ rankedResults = <<>>
        /\ \A i \in DOMAIN results : results[i].vec_rank = Undefined
        /\ getActiveEmbeddingConfig = NoEmbeddingConfig

(* a model is configured but its credentials are missing: chunks were *)
(* stored and a search has returned both matching chunks              *)
C19_Witness ==
    /\ embeddingConfig # NoEmbeddingConfig
    /\ ~credentialsAvailable
    /\ documents # {}
    /\ fpc = "done"
    /\ Len(results) = Cardinality(VectorMatches)

----------------------------------------------------------------------------
(* Properties of HtmlPlaywrightMiddleware *)

(* a page is gone when it was closed or the browser context it belongs to was *)
Disposed(p) == p # "open" \/ browserContext = "closed"

(* C20 as stated: when process has returned or thrown, close() has been     *)
(* called on the browser context it created and every page it created, the  *)
(* frame pages included, is gone, whichever step failed.                    *)
C20_ContextAndPagesClosed ==
    mpc \in {"returned", "thrown"} =>
        /\ browserContext # "open"
        /\ Disposed(page)
        /\ \A i \in DOMAIN framePages : Disposed(framePages[i])

----------------------------------------------------------------------------
(* Properties of the shared browser *)

(* C21 as stated: at most one launched browser is connected at a time, and  *)
(* every browser that is launched and neither closed nor disconnected is    *)
(* the one this.browser refers to, so that closeBrowser reaches it.         *)
C21_OneBrowserNeverLeaked ==
    /\ Cardinality({b \in DOMAIN launched : launched[b] = "connected"}) <= 1
    /\ \A b \in DOMAIN launched : launched[b] = "connected" => browser = b

(* C22: whenever closeBrowser returns after it found a browser reference,   *)
(* close() has been called on that browser, this.browser is null at the     *)
(* return, and the call has returned normally although close() may have     *)
(* rejected; a later ensureBrowser then launches a browser.                 *)
C22_CloseAlwaysReleases ==
    [][(closePc.pc = "closing" /\ closePc'.pc # "closing") =>
           /\ closePc'.pc = "returned"
           /\ closePc.target \in closeCalls'
           /\ browser' = 0
           /\ ~Connected(browser')]_vars

(* closeBrowser has returned for a browser that was already disconnected, *)
(* after its close() rejected                                            *)
C22_Witness ==
    /\ closePc.pc = "returned"
    /\ closePc.target # 0
    /\ closePc.threw
    /\ launched[closePc.target] = "disconnected"
    /\ closePc.target \in closeCalls
    /\ browser = 0

----------------------------------------------------------------------------
(* Properties of the resource cache *)

(* C23 as stated: every entry of the resource cache was stored from a       *)
(* response with a 2xx status and a body of at most maxCacheItemSizeBytes,  *)
(* whichever code wrote it.                                                 *)
C23_CacheAdmission ==
    \A url \in CacheUrls :
        resourceCache[url] # NoEntry =>
            /\ resourceCache[url].status >= 200
            /\ resourceCache[url].status < 300
            /\ resourceCache[url].size <= maxCacheItemSizeBytes

----------------------------------------------------------------------------
(* Properties of mergePlaywrightHeaders *)

(* C24: when the request's origin is not the page's origin, or is missing,  *)
(* no header mergePlaywrightHeaders returns carries the Basic value made    *)
(* from the credentials; the headers are the request's with the custom ones *)
(* merged in.                                                               *)
C24_NoCredentialsCrossOrigin ==
    (/\ mergedHeaders # NotMerged
     /\ mergeArgs.credentials # NoCredentials
     /\ (mergeArgs.reqOrigin = NoOrigin \/ mergeArgs.reqOrigin # mergeArgs.origin)) =>
        /\ \A key \in DOMAIN mergedHeaders :
               mergedHeaders[key] # basicAuthorization(mergeArgs.credentials)
        /\ mergedHeaders = withCustomHeaders(mergeArgs.requestHeaders, mergeArgs.customHeaders)

(* returned for a page with credentials and a request to another origin that *)
(* carries no authorization header of its own                               *)
C24_Witness ==
    /\ mergedHeaders # NotMerged
    /\ mergeArgs.credentials # NoCredentials
    /\ mergeArgs.origin = "https://a"
    /\ mergeArgs.reqOrigin = "https://b"
    /\ DOMAIN mergedHeaders = {"accept"}

----------------------------------------------------------------------------
(* Properties of process and next *)

(* C25: when process has returned normally, next has been invoked exactly   *)
(* once; next is never invoked twice, and once it has been invoked the      *)
(* page and the browser context of the call are closed (or were never       *)
(* created) and no frame is being fetched.                                  *)
C25_NextExactlyOnce ==
    /\ mpc = "returned" => nextCalls = 1
    /\ nextCalls <= 1
    /\ (mpc = "next" \/ nextCalls > 0) =>
           /\ page \in {"null", "closed"}
           /\ browserContext \in {"null", "closed"}
           /\ framePc = "none"

(* returned after a render that failed: the error was recorded, the page and *)
(* the context were closed, next was invoked                                *)
C25_Witness ==
    /\ mpc = "returned"
    /\ contextErrors = 1
    /\ page = "closed"
    /\ browserContext = "closed"
    /\ nextCalls = 1

(* one path is the other, or its beginning *)
PathsRelated(p, q) ==
    \/ p = q
    \/ (Len(p) < Len(q) /\ SubSeq(q, 1, Len(p)) = p)
    \/ (Len(q) < Len(p) /\ SubSeq(p, 1, Len(q)) = q)

(* the chunk at a section of level 1 or 2 whose path is unrelated to the accumulator's *)
AcrossMajorSections(acc, chunk) ==
    /\ chunk.section.level \in {1, 2}
    /\ ~PathsRelated(acc.section.path, chunk.section.path)

(* C26: when the loop takes a chunk of section level 1 or 2 whose path is    *)
(* unrelated to the accumulator's, an accumulator of at least minChunkSize   *)
(* is emitted and the chunk starts a new one; an accumulator below           *)
(* minChunkSize takes the chunk in if the merged length is <= maxChunkSize.  *)
C26_StructureWinsOverSize ==
    [][(/\ Len(consumed') = Len(consumed) + 1
        /\ currentChunk # NoChunk
        /\ AcrossMajorSections(currentChunk, consumed'[Len(consumed')]))
       => LET nextChunk == consumed'[Len(consumed')]
          IN /\ Len(currentChunk.content) >= splitter.min
                  => /\ concatenatedChunks' = Append(concatenatedChunks, currentChunk)
                     /\ currentChunk' = nextChunk
             /\ (/\ Len(currentChunk.content) < splitter.min
                 /\ combinedSize(currentChunk, nextChunk) <= splitter.max)
                  => /\ concatenatedChunks' = concatenatedChunks
                     /\ currentChunk' = mergeChunks(currentChunk, nextChunk)]_vars

(* a full accumulator was emitted at an unrelated H2, and the short chunk of *)
(* that H2 then took in the chunk of an unrelated H1                         *)
C26_Witness ==
    /\ Len(consumed) = 3
    /\ Len(consumed[1].content) >= splitter.min
    /\ AcrossMajorSections(consumed[1], consumed[2])
    /\ Len(consumed[2].content) < splitter.min
    /\ AcrossMajorSections(consumed[2], consumed[3])
    /\ concatenatedChunks = <<consumed[1]>>
    /\ cuts = <<"major">>
    /\ currentChunk = mergeChunks(consumed[2], consumed[3])

(* the chunks splitText has built so far: the pushed ones and the accumulator *)
Emitted ==
    concatenatedChunks
        \o (IF spc = "loop" /\ currentChunk # NoChunk THEN <<currentChunk>> ELSE <<>>)

(* the ways to cut the chunks taken so far into as many consecutive runs as *)
(* there are built chunks: the index of the last input of each run          *)
RunEnds ==
    {e \in [DOMAIN Emitted -> DOMAIN consumed] :
        /\ \A i \in DOMAIN e : i < Len(e) => e[i] < e[i + 1]
        /\ Len(Emitted) > 0 => e[Len(Emitted)] = Len(consumed)}

Run(e, i) == SubSeq(consumed, IF i = 1 THEN 1 ELSE e[i - 1] + 1, e[i])

ProperPrefix(p, q) == Len(p) < Len(q) /\ SubSeq(q, 1, Len(p)) = p

LongestCommonPrefix(p, q) ==
    LET common == {k \in 0..Min(Len(p), Len(q)) : SubSeq(p, 1, k) = SubSeq(q, 1, k)}
    IN SubSeq(p, 1, CHOOSE k \in common : \A j \in common : j <= k)

(* the section two merged chunks get *)
FusedSection(a, b) ==
    [level |-> Min(a.level, b.level),
     path |-> IF ProperPrefix(a.path, b.path) THEN b.path
              ELSE IF ProperPrefix(b.path, a.path) THEN a.path
              ELSE LongestCommonPrefix(a.path, b.path)]

(* the section of a run of chunks merged one after the other *)
RECURSIVE FusedSections(_, _)
FusedSections(section, rest) ==
    IF rest = <<>> THEN section
    ELSE FusedSections(FusedSection(section, Head(rest).section), Tail(rest))

(* the bodies of a run joined, a newline put in where the left piece lacks one *)
RECURSIVE JoinedBodies(_, _)
JoinedBodies(body, rest) ==
    IF rest = <<>> THEN body
    ELSE JoinedBodies(body \o (IF body # <<>> /\ body[Len(body)] = "\n" THEN <<>> ELSE <<"\n">>)
                           \o Head(rest).content,
                      Tail(rest))

BodyOfRun(run) == JoinedBodies(Head(run).content, Tail(run))

TypeSet(types) == {types[i] : i \in DOMAIN types}

(* C27: every chunk built from a run of merged inputs has the section the   *)
(* pairwise rule gives, applied along the run (level the minimum, path the  *)
(* longer of two paths when one is a proper prefix of the other, else their *)
(* longest common prefix), its types are the union of the inputs' types     *)
(* without duplicates, and its path is a prefix of, or equal to, the path   *)
(* of one input of the run.                                                 *)
C27_FusedSectionAndTypes ==
    \E e \in RunEnds :
        \A i \in DOMAIN Emitted :
            LET run == Run(e, i)
                out == Emitted[i]
            IN /\ out.content = BodyOfRun(run)
               /\ out.section = FusedSections(Head(run).section, Tail(run))
               /\ TypeSet(out.types) = UNION {TypeSet(run[j].types) : j \in DOMAIN run}
               /\ Cardinality(TypeSet(out.types)) = Len(out.types)
               /\ \E j \in DOMAIN run :
                      \/ out.section.path = run[j].section.path
                      \/ ProperPrefix(out.section.path, run[j].section.path)

(* three chunks merged into one: A with A/B gives the longer path A/B at    *)
(* level 1, and that with A/F the common prefix A; the shared type is kept  *)
(* once                                                                     *)
C27_Witness ==
    /\ spc = "returned"
    /\ Len(consumed) = 3
    /\ consumed[1].section.path = <<"A">>
    /\ consumed[2].section.path = <<"A", "B">>
    /\ consumed[3].section.path = <<"A", "F">>
    /\ Len(concatenatedChunks) = 1
    /\ concatenatedChunks[1].section = [level |-> 1, path |-> <<"A">>]
    /\ concatenatedChunks[1].types = <<"heading", "text", "code">>

(* C28: the chunks built so far are the inputs taken so far cut into        *)
(* consecutive runs in input order, each body the bodies of its run joined  *)
(* with one newline wherever the left piece does not end with one, and the  *)
(* body of a run of more than one input is at most maxChunkSize long.       *)
C28_PartitionIntoJoinedRuns ==
    \E e \in RunEnds :
        \A i \in DOMAIN Emitted :
            /\ Emitted[i].content = BodyOfRun(Run(e, i))
            /\ Len(Run(e, i)) > 1 => Len(Emitted[i].content) <= splitter.max

(* returned with a run of two inputs joined by a newline, exactly           *)
(* maxChunkSize long, and a run of one input                                *)
C28_Witness ==
    /\ spc = "returned"
    /\ Len(consumed) = 3
    /\ Len(concatenatedChunks) = 2
    /\ concatenatedChunks[1].content = consumed[1].content \o <<"\n">> \o consumed[2].content
    /\ Len(concatenatedChunks[1].content) = splitter.max
    /\ concatenatedChunks[2].content = consumed[3].content

Whitespace == {" ", "\t", "\n"}

QuotePositions(s) == {i \in DOMAIN s : s[i] = "\""}

(* positions i < j of an opening quote and the quote that closes it *)
MatchedQuotes(s) ==
    {p \in QuotePositions(s) \X QuotePositions(s) :
        /\ p[1] < p[2]
        /\ Cardinality({k \in QuotePositions(s) : k < p[1]}) % 2 = 0
        /\ \A k \in QuotePositions(s) : ~(p[1] < k /\ k < p[2])}

(* C29: when escapeFtsQuery has returned, no token is empty, the text       *)
(* between a matched pair of double quotes is one token with its whitespace *)
(* kept, and for a query without quotes no token contains a space, a tab or *)
(* a newline.                                                               *)
C29_WhitespaceSeparatesWords ==
    FtsReturned =>
        /\ \A t \in DOMAIN tokens : tokens[t] # <<>>
        /\ \A p \in MatchedQuotes(query) :
               p[1] + 1 < p[2] =>
                   \E t \in DOMAIN tokens : tokens[t] = SubSeq(query, p[1] + 1, p[2] - 1)
        /\ QuotePositions(query) = {} =>
               \A t \in DOMAIN tokens : \A c \in DOMAIN tokens[t] : tokens[t][c] \notin Whitespace

----------------------------------------------------------------------------
(* Properties of the embedding batches *)

RECURSIVE Flatten(_)
Flatten(batches) ==
    IF batches = <<>> THEN <<>> ELSE Head(batches) \o Flatten(Tail(batches))

(* C30: the batches addDocuments has formed, followed by the batch it is    *)
(* filling, are the texts iterated over so far, in input order, no batch    *)
(* empty; every batch passed to the provider holds at most batchSize texts, *)
(* and at most batchChars characters unless it is a single text.            *)
C30_BatchesPartitionTexts ==
    /\ Flatten(formed) \o (IF bpc = "loop" THEN currentBatch ELSE <<>>)
           = SubSeq(texts, 1, textIndex)
    /\ \A i \in DOMAIN formed : formed[i] # <<>>
    /\ bpc = "done" => Flatten(formed) = texts
    /\ \A batch \in sent :
           /\ Len(batch) <= embeddingBatchSize
           /\ TotalChars(batch) <= embeddingBatchChars \/ Len(batch) = 1

(* done: a batch was closed by the character limit, the next one by the     *)
(* count limit, and the provider had one batch split in halves              *)
C30_Witness ==
    /\ bpc = "done"
    /\ Len(texts) = 3
    /\ embeddingBatchSize = 2
    /\ Len(formed) = 2
    /\ Len(formed[1]) = 1
    /\ Len(formed[2]) = 2
    /\ TotalChars(formed[1]) + texts[2].size > embeddingBatchChars
    /\ Cardinality(sent) = 4

(* C31: every embedDocumentsWithRetry call that addDocuments awaits ends,   *)
(* by returning its vectors or by throwing, whatever the provider answers.  *)
C31_RetryTerminates == Awaiting ~> ~Awaiting

(* C32: when the batching part of addDocuments has finished without an     *)
(* error there is one vector per chunk, and the i-th vector was computed    *)
(* from the text of chunk i or from a prefix of it.                         *)
C32_VectorsAlignedWithChunks ==
    bpc = "done" =>
        /\ Len(embedded) = Len(texts)
        /\ \A i \in DOMAIN embedded :
               /\ embedded[i].chunk = i
               /\ embedded[i].size <= texts[i].size

(* done: the three texts were one batch, the provider had it split in       *)
(* halves and the second half again, and one text was cut before it was     *)
(* embedded                                                                 *)
C32_Witness ==
    /\ bpc = "done"
    /\ Len(texts) = 3
    /\ formed = <<texts>>
    /\ {<<texts[1]>>, <<texts[2], texts[3]>>, <<texts[2]>>, <<texts[3]>>} \subseteq sent
    /\ \E i \in DOMAIN embedded : embedded[i].size < texts[i].size

----------------------------------------------------------------------------
(* Properties of addDocuments when the embeddings fail *)

LongerThanDb(vectors) == \E i \in DOMAIN vectors : Len(vectors[i]) > dbDimension

(* C33: at the step of addDocuments that generates the embeddings, a vector *)
(* longer than the database dimension makes the call fail, and when the     *)
(* call fails at this step, by that or by a provider error, the tables and  *)
(* the stored vectors are what they were when the call started.             *)
C33_FailedEmbeddingLeavesStore ==
    [][(pc = "embed" /\ call.kind = "addDocuments")
       => /\ LongerThanDb(rawEmbeddings') => (pc' = "done" /\ ret'.outcome = "thrown")
          /\ pc' = "done" => (ret'.outcome = "thrown" /\ Snapshot' = pre')]_vars

(* addDocuments for a stored page has failed on a vector that is too long *)
C33_Witness ==
    /\ pc = "done"
    /\ call.kind = "addDocuments"
    /\ ret.outcome = "thrown"
    /\ LongerThanDb(rawEmbeddings)
    /\ pre.documents # {}
    /\ \E p \in pre.pages : p.url = call.url
    /\ Snapshot = pre

----------------------------------------------------------------------------
(* Properties of deletePage *)

InDeletePage == call.kind = "deletePage" /\ pc # "idle"

(* C34: during deletePage the page row is there as long as one of its       *)
(* chunks is; when the call has returned, exactly the page with this id and *)
(* the chunks of that page are gone, and every other page, chunk, version   *)
(* and library row is as before the call - nothing is changed if there was  *)
(* no such page.                                                            *)
C34_DeletePageRemovesExactlyThePage ==
    InDeletePage =>
        /\ (\E d \in documents : d.page_id = call.id) => pages = pre.pages
        /\ (pc = "done" /\ ret.outcome = "ok") =>
               /\ pages = {p \in pre.pages : p.id # call.id}
               /\ documents = {d \in pre.documents : d.page_id # call.id}
               /\ versions = pre.versions
               /\ libraries = pre.libraries
               /\ (\A p \in pre.pages : p.id # call.id) => Snapshot = pre

(* deletePage has returned for a page with a chunk; another page and its    *)
(* chunk are still there                                                    *)
C34_Witness ==
    /\ InDeletePage
    /\ pc = "done"
    /\ ret.outcome = "ok"
    /\ \E p \in pre.pages : p.id = call.id
    /\ \E d \in pre.documents : d.page_id = call.id
    /\ \E d \in documents : \E p \in pages : p.id = d.page_id

----------------------------------------------------------------------------
(* Properties of findChildChunks *)

(* the chunks after the reference chunk whose path is its path and one more element *)
ChildrenOf(paths, id) ==
    {i \in DOMAIN paths :
        /\ i > id
        /\ Len(paths[i]) = Len(paths[id]) + 1
        /\ SubSeq(paths[i], 1, Len(paths[id])) = paths[id]}

(* C35: for a reference chunk of the page, findChildChunks returns the      *)
(* first `limit` chunks, in ascending sort_order, that come after it and    *)
(* whose path is its path extended by one element - a non-empty list if     *)
(* there is such a chunk.                                                   *)
C35_ChildrenReturned ==
    (childChunks # NotFound /\ childArgs.id \in DOMAIN childArgs.paths) =>
        childChunks = FirstRows(Ascending(ChildrenOf(childArgs.paths, childArgs.id)),
                                childArgs.limit)

----------------------------------------------------------------------------
(* Properties of mergePlaywrightHeaders: headers that are already there *)

AuthorizationKeys(headers) == {key \in DOMAIN headers : authorizationKey(key)}

(* C36: when the request or the custom headers carry an authorization       *)
(* header, in either spelling, every authorization header of the request is *)
(* returned with its value, a custom one is returned with its value if the  *)
(* request has none, and no returned header has the Basic value made from   *)
(* the credentials.                                                         *)
C36_AuthorizationNotOverwritten ==
    (/\ mergedHeaders # NotMerged
     /\ AuthorizationKeys(mergeArgs.requestHeaders) \cup
            AuthorizationKeys(mergeArgs.customHeaders) # {}) =>
        /\ \A key \in AuthorizationKeys(mergeArgs.requestHeaders) :
               /\ key \in DOMAIN mergedHeaders
               /\ mergedHeaders[key] = mergeArgs.requestHeaders[key]
        /\ AuthorizationKeys(mergeArgs.requestHeaders) = {} =>
               \A key \in AuthorizationKeys(mergeArgs.customHeaders) :
                   /\ key \in DOMAIN mergedHeaders
                   /\ mergedHeaders[key] = mergeArgs.customHeaders[key]
        /\ mergeArgs.credentials # NoCredentials =>
               \A key \in DOMAIN mergedHeaders :
                   mergedHeaders[key] # basicAuthorization(mergeArgs.credentials)

(***************************************************************************)
(* Route handler: errors of the calls on the route                         *)
(***************************************************************************)

(* the route actions: calls that handle the route *)
RouteActions == {"abort", "fulfill", "continue"}

(* the i-th call on the route rejected with an Error saying the route is *)
(* already handled                                                      *)
RejectedAlreadyHandled(i) ==
    /\ routeCalls[i].outcome # <<>>
    /\ routeCalls[i].outcome[1].instanceOfError
    /\ routeCalls[i].outcome[1].message \in AlreadyHandledMessages

(* the i-th call on the route rejected with anything else *)
RejectedOtherwise(i) ==
    /\ routeCalls[i].outcome # <<>>
    /\ ~RejectedAlreadyHandled(i)

(* an already handled rejection of a route action is the handler's last call *)
(* on the route and the handler resolves                                     *)
AlreadyHandledNeverEscapes ==
    \A i \in DOMAIN routeCalls :
        (routeCalls[i].action \in RouteActions /\ RejectedAlreadyHandled(i)) =>
            /\ i = Len(routeCalls)
            /\ routeResult = RouteResolved

(* once the handler has settled, any other rejection of abort or fulfill has *)
(* made it reject                                                            *)
OtherErrorsPropagate ==
    routePc = "done" =>
        \A i \in DOMAIN routeCalls :
            (routeCalls[i].action \in {"abort", "fulfill"} /\ RejectedOtherwise(i)) =>
                routeResult.state = "rejected"

(* C37: in the route handler a "Route is already handled" error of abort,  *)
(* fulfill or continue (also of the abort after a failed fetch or continue) *)
(* never escapes: the handler resolves and calls no further action on the  *)
(* route; any other error raised by abort or fulfill leaves the handler as *)
(* a rejection.                                                            *)
C37_RouteErrors == AlreadyHandledNeverEscapes /\ OtherErrorsPropagate

(***************************************************************************)
(* process: context.content and context.errors                             *)
(***************************************************************************)

(* process takes one of its early returns *)
SkipsPlaywright == ~source.isHtml \/ ~source.shouldRunPlaywright

(* positions of process after its try and catch blocks *)
AfterRender == {"finally", "unroute", "closePage", "closeContext", "update", "next",
                "returned", "thrown"}

(* positions of process after the assignment to context.content *)
AfterUpdate == {"next", "returned", "thrown"}

(* a step of the try block threw and the catch block ran *)
RenderFailed == mpc \in AfterRender /\ ~SkipsPlaywright /\ ~renderedHtml

(* C38: context.content is replaced only by a completed render. When process *)
(* skips Playwright (content type present and not HTML, or a scrape mode     *)
(* other than playwright and auto) ensureBrowser is not reached, no context  *)
(* or page is created and content and errors are unchanged; when a step of   *)
(* the render fails, context.content is left as it was and exactly one error *)
(* has been appended to context.errors.                                      *)
C38_ContentReplacedOnlyByRender ==
    /\ contextContent = "rendered" => (renderedHtml /\ mpc \in AfterUpdate)
    /\ (mpc # "off" /\ SkipsPlaywright) =>
        /\ mpc \in {"start", "next", "returned", "thrown"}
        /\ browserContext = "null" /\ page = "null"
        /\ contextContent = "initial"
        /\ contextErrors = 0
    /\ RenderFailed =>
        /\ contextContent = "initial"
        /\ contextErrors = 1
    /\ (mpc \in AfterRender /\ renderedHtml) => contextErrors = 0

(* a render that failed after the page was opened, past the content update *)
C38_Witness ==
    /\ RenderFailed
    /\ mpc = "next"
    /\ page = "closed"
    /\ contextContent = "initial"
    /\ contextErrors = 1

(***************************************************************************)
(* The "disconnected" handler and a replacement browser                    *)
(***************************************************************************)

(* C39 as stated: the handler of a "disconnected" event clears this.browser *)
(* only when the event is of the browser this.browser refers to: whenever   *)
(* the event of another browser is handled while this.browser refers to a   *)
(* connected browser, the reference stays.                                  *)
C39_LateDisconnectKeepsReplacement ==
    [][\A b \in eventsPending :
          (b \notin eventsPending' /\ b # browser /\ Connected(browser)) =>
              browser' = browser]_vars

----------------------------------------------------------------------------
(* Properties of the resource cache across process runs *)

(* C40 as stated: a cached response is served only to a request of a page  *)
(* that carries the credentials and custom headers the response was fetched *)
(* with; runs that differ in credentials never get each other's cached body *)
(* for a URL.                                                               *)
C40_CacheIsolatedByCredentials ==
    served # <<>> => served[1].reader = served[1].writer

====
